---------------------------- MODULE Spec2Model ----------------------------
(***************************************************************************)
(* A model of the web4-governance extension: the hash-linked, signed audit *)
(* chain (audit.ts), the R6 request builder and tool classifier (r6.ts),   *)
(* the rule matchers (matchers.ts), the signer (signing.ts), the sliding   *)
(* window rate limiter (persistent-rate-limiter.ts) and, around them, the  *)
(* policy engine and the pre-call / post-call hooks.                       *)
(*                                                                         *)
(* Values.  A JavaScript string that the code inspects character by        *)
(* character (a target, a pattern) is a sequence of one-character strings; *)
(* a string that is only compared (a tool name, a category) is a TLA+      *)
(* string.  A JavaScript object is the sequence of its fields in insertion *)
(* order: <<key, value>> for a defined field and <<key>> for a field whose *)
(* value is undefined.  SHA-256 (cut to 16 hex digits) is modelled as an   *)
(* injective function of the bytes hashed, and an Ed25519 signature as the *)
(* pair of the signing key and the bytes signed.                           *)
(***************************************************************************)
EXTENDS Integers, Sequences, FiniteSets, TLC

VARIABLES
    log,            \* audit/<sessionId>.jsonl: the lines on disk, in order
    prevHash,       \* AuditChain.prevHash
    recordCount,    \* AuditChain.recordCount
    signing,        \* AuditChain.signing: a key, or NoSigning
    limiter,        \* PersistentRateLimiter: isPersistent, the table, the fallback map
    session,        \* SessionState of the session
    config,         \* the PolicyConfig the engine was loaded with
    pc,             \* where the host is: "idle", or "gated" between the two hooks
    stash,          \* the call and its evaluation, kept from pre-call for post-call
    lastR6,         \* the R6 request the last post-call built
    postCalls,      \* history: the post-calls that returned
    admitLog,       \* history: <<rate key, time>> of every limiter record
    tampered,       \* history: the line (1-based) edited behind the chain's back, or 0
    peer,           \* the AuditChain and file of a second session: log, prevHash, recordCount
    calls,          \* history: the record calls of both sessions, in the order made
    stream,         \* EventStream: minSeverity, callbacks, and the files of its directory
    runtime,        \* ModelRuntime: status, metadata, llamaContext, modelHash, loads in progress
    now,            \* the clock: Date.now()
    ret             \* what the last operation returned or raised

chainVars == <<log, prevHash, recordCount, signing>>
hookVars == <<limiter, session, pc, stash, lastR6, postCalls, admitLog>>
fixedVars == <<config, tampered, peer, calls, stream, runtime>>
vars == <<log, prevHash, recordCount, signing, limiter, session, config, pc, stash,
          lastR6, postCalls, admitLog, tampered, peer, calls, stream, runtime, now, ret>>

(***************************************************************************)
(* Bounds of the model.                                                    *)
(***************************************************************************)
MaxRecords == 3
MaxTime == 1
MaxRateCalls == 4
MaxRateTime == 2
MaxEvents == 2

(***************************************************************************)
(* JavaScript objects and JSON.                                            *)
(***************************************************************************)
Def(k, v) == <<k, v>>
Undef(k) == <<k>>
IsDefined(f) == Len(f) = 2

HasKey(obj, k) == \E i \in DOMAIN obj : obj[i][1] = k /\ IsDefined(obj[i])

Get(obj, k) == obj[CHOOSE i \in DOMAIN obj : obj[i][1] = k /\ IsDefined(obj[i])][2]

\* The keys whose values are themselves objects in an audit record.
ObjectKeys == {"result", "provenance"}

\* JSON.stringify of a flat object: fields with an undefined value are left out.
StringifyFlat(obj) == SelectSeq(obj, IsDefined)

StringifyFields(obj) ==
    [i \in DOMAIN StringifyFlat(obj) |->
        LET f == StringifyFlat(obj)[i]
        IN  IF f[1] \in ObjectKeys THEN Def(f[1], StringifyFlat(f[2])) ELSE f]

\* JSON.stringify(record): one line of text.  doc is the JSON value the text
\* spells; sp tells how it is spelled ("canon": exactly as JSON.stringify
\* writes it).
JSONstringify(obj) == [doc |-> StringifyFields(obj), sp |-> "canon"]

Parseable(line) == line.sp \in {"canon", "respelled"}

\* JSON.parse(line), for a line that parses: the object with the line's fields
\* in the line's order.
JSONparse(line) == line.doc

(***************************************************************************)
(* Hashing and signing.                                                    *)
(***************************************************************************)
Genesis == <<"genesis">>

\* createHash("sha256").update(line).digest("hex").slice(0, 16)
Sha16(line) == <<"sha16", line>>

NoSigning == <<"unsigned">>
SessionKey == <<"key", "k1">>
OtherKey == <<"key", "k2">>

\* generateSigningKeyPair: keyId is the tail of the public key's hex.
KeyId(key) == <<"keyId", key[2]>>
PublicKeyHex(key) == <<"pub", key[2]>>
PrivateKeyHex(key) == <<"priv", key[2]>>

\* signData(data, privateKeyHex)
signData(data, privateKeyHex) == [by |-> privateKeyHex[2], over |-> data]

\* Buffer.from(hex, "hex") never throws: it decodes up to the first character
\* that is not hex.  A hex string that was cut or spoiled keeps a mark of it.
Spoiled(signature, form) == [by |-> signature.by, over |-> signature.over, form |-> form]

\* createPublicKey({key, format: "der", type: "spki"}) throws unless the bytes
\* are the SPKI encoding of a public key.
createPublicKeyThrows(publicKeyDer) ==
    ~(Len(publicKeyDer) = 2 /\ publicKeyDer[1] = "pub")

\* crypto.verify(null, data, publicKey, signature): false for bytes that are
\* not the signature of data under the key, whatever their length.
cryptoVerify(data, publicKey, signature) ==
    /\ "form" \notin DOMAIN signature
    /\ signature.by = publicKey[2]
    /\ signature.over = data

\* verifySignature with the exception of createPublicKey passing through.
verifySignatureUncaught(data, signature, publicKeyHex) ==
    IF createPublicKeyThrows(publicKeyHex)
        THEN [raised |-> TRUE, value |-> FALSE]
        ELSE [raised |-> FALSE, value |-> cryptoVerify(data, publicKeyHex, signature)]

\* verifySignature(data, signatureHex, publicKeyHex) as a call: whether it
\* raised and what it returned.  The catch turns every exception into false.
verifySignatureCall(data, signature, publicKeyHex) ==
    IF createPublicKeyThrows(publicKeyHex)
        THEN [raised |-> FALSE, value |-> FALSE]
        ELSE [raised |-> FALSE, value |-> cryptoVerify(data, publicKeyHex, signature)]

\* verifySignature(data, signatureHex, publicKeyHex)
verifySignature(data, signature, publicKeyHex) ==
    verifySignatureCall(data, signature, publicKeyHex).value

(***************************************************************************)
(* Absent values.                                                          *)
(***************************************************************************)
SessionId == "s1"
\* An undefined string (a target that is not there) and an undefined list.
NoTarget == <<"undefined">>
NoTargets == <<NoTarget>>

(***************************************************************************)
(* Regular expressions.  A compiled expression is a sequence of tokens:    *)
(* <<"lit", c>> one given character, <<"opt", c>> that character or        *)
(* nothing, <<"any">> the dot, <<"nonslash">> [^/], and the starred forms  *)
(* <<"anystar">> .* and <<"nonslashstar">> [^/]*.                          *)
(***************************************************************************)
LineTerminators == {"\n", "\r"}

UpperCase == <<"A","B","C","D","E","F","G","H","I","J","K","L","M",
               "N","O","P","Q","R","S","T","U","V","W","X","Y","Z">>
LowerCase == <<"a","b","c","d","e","f","g","h","i","j","k","l","m",
               "n","o","p","q","r","s","t","u","v","w","x","y","z">>

ToLower(c) ==
    IF \E i \in DOMAIN UpperCase : UpperCase[i] = c
        THEN LowerCase[CHOOSE i \in DOMAIN UpperCase : UpperCase[i] = c]
        ELSE c

Lit(chars) == [i \in DOMAIN chars |-> <<"lit", chars[i]>>]

\* Whether one character is matched by a one-character token.
TokenTakes(tok, c, ignoreCase) ==
    CASE tok[1] \in {"lit", "opt"} ->
            IF ignoreCase THEN ToLower(tok[2]) = ToLower(c) ELSE tok[2] = c
      [] tok[1] \in {"any", "anystar"} -> c \notin LineTerminators
      [] tok[1] \in {"nonslash", "nonslashstar"} -> c # "/"
      [] OTHER -> FALSE

\* Whether tokens ti.. match s from position si exactly to the end of s.
RECURSIVE MatchToEnd(_, _, _, _, _)
MatchToEnd(tokens, s, ti, si, ignoreCase) ==
    IF ti > Len(tokens)
        THEN si > Len(s)
    ELSE LET tok == tokens[ti]
             takes == si <= Len(s) /\ TokenTakes(tok, s[si], ignoreCase)
         IN  CASE tok[1] \in {"anystar", "nonslashstar"} ->
                     \/ MatchToEnd(tokens, s, ti + 1, si, ignoreCase)
                     \/ takes /\ MatchToEnd(tokens, s, ti, si + 1, ignoreCase)
               [] tok[1] = "opt" ->
                     \/ MatchToEnd(tokens, s, ti + 1, si, ignoreCase)
                     \/ takes /\ MatchToEnd(tokens, s, ti + 1, si + 1, ignoreCase)
               [] OTHER ->
                     takes /\ MatchToEnd(tokens, s, ti + 1, si + 1, ignoreCase)

\* new RegExp("^" + re + "$").test(s)
TestAnchored(tokens, s) == MatchToEnd(tokens, s, 1, 1, FALSE)

\* /re$/i.test(s): the match may start anywhere and must end at the end.
TestSuffixIgnoreCase(tokens, s) ==
    \E start \in 1..(Len(s) + 1) : MatchToEnd(tokens, s, 1, start, TRUE)

(***************************************************************************)
(* matchers.ts: globToRegex, matchesList, matchesTarget, matchesRule.      *)
(***************************************************************************)
\* The characters globToRegex escapes (line 105).
EscapedChars == {".", "+", "^", "$", "{", "}", "(", ")", "|", "[", "]", "\\"}

\* Lines 90-112: the body of the expression, scanned from character i (1-based).
RECURSIVE globScan(_, _)
globScan(pattern, i) ==
    IF i > Len(pattern) THEN <<>>
    ELSE LET ch == pattern[i] IN
         IF ch = "*"
             THEN IF i + 1 <= Len(pattern) /\ pattern[i + 1] = "*"
                      THEN <<<<"anystar">>>> \o
                           globScan(pattern,
                               IF i + 2 <= Len(pattern) /\ pattern[i + 2] = "/"
                                   THEN i + 3 ELSE i + 2)
                      ELSE <<<<"nonslashstar">>>> \o globScan(pattern, i + 1)
         ELSE IF ch = "?"
             THEN <<<<"nonslash">>>> \o globScan(pattern, i + 1)
         ELSE IF ch \in EscapedChars
             THEN <<<<"lit", ch>>>> \o globScan(pattern, i + 1)
         ELSE <<<<"lit", ch>>>> \o globScan(pattern, i + 1)

\* globToRegex(pattern): the tokens of the anchored expression ^re$.
globToRegex(pattern) == globScan(pattern, 1)

\* new RegExp(pattern) for the patterns the model's rules use in regex mode:
\* literal characters, the dot, and a dot followed by a star; an expression
\* that is not anchored matches anywhere in the target.
RECURSIVE regexScan(_, _)
regexScan(pattern, i) ==
    IF i > Len(pattern) THEN <<>>
    ELSE IF pattern[i] = "."
        THEN IF i + 1 <= Len(pattern) /\ pattern[i + 1] = "*"
                 THEN <<<<"anystar">>>> \o regexScan(pattern, i + 2)
                 ELSE <<<<"any">>>> \o regexScan(pattern, i + 1)
    ELSE <<<<"lit", pattern[i]>>>> \o regexScan(pattern, i + 1)

\* new RegExp(pattern).test(target): no anchors, so a match of the pattern
\* anywhere in the target.
RegExpTest(pattern, target) ==
    MatchToEnd(<<<<"anystar">>>> \o regexScan(pattern, 1) \o <<<<"anystar">>>>,
               target, 1, 1, FALSE)

\* Lines 117-119.
matchesList(value, list) == \E i \in DOMAIN list : list[i] = value

\* Lines 122-136.
matchesTarget(target, patterns, useRegex) ==
    IF target = NoTarget THEN FALSE
    ELSE \E i \in DOMAIN patterns :
            IF useRegex
                THEN RegExpTest(patterns[i], target)
                ELSE TestAnchored(globToRegex(patterns[i]), target)

\* A matchesRule in which one satisfied criterion is enough.
matchesRuleAnyCriterion(toolName, category, target, match) ==
    \/ HasKey(match, "tools") /\ matchesList(toolName, Get(match, "tools"))
    \/ HasKey(match, "categories") /\ matchesList(category, Get(match, "categories"))
    \/ /\ HasKey(match, "targetPatterns")
       /\ matchesTarget(target, Get(match, "targetPatterns"),
              IF HasKey(match, "targetPatternsAreRegex")
                  THEN Get(match, "targetPatternsAreRegex") ELSE FALSE)
    \/ match = <<>>

\* Lines 143-158.  match is the PolicyMatch object.
matchesRule(toolName, category, target, match) ==
    IF HasKey(match, "tools") /\ ~matchesList(toolName, Get(match, "tools")) THEN FALSE
    ELSE IF HasKey(match, "categories") /\ ~matchesList(category, Get(match, "categories"))
        THEN FALSE
    ELSE IF HasKey(match, "targetPatterns")
        THEN matchesTarget(target, Get(match, "targetPatterns"),
                 IF HasKey(match, "targetPatternsAreRegex")
                     THEN Get(match, "targetPatternsAreRegex") ELSE FALSE)
    ELSE TRUE

(***************************************************************************)
(* r6.ts: the classifier.                                                  *)
(***************************************************************************)
NonSlashPlus == <<<<"nonslash">>, <<"nonslashstar">>>>
NonSlashStar == <<<<"nonslashstar">>>>

\* CREDENTIAL_PATTERNS (lines 76-91), each /...$/i.
CREDENTIAL_PATTERNS ==
    << Lit(<<".","e","n","v">>),
       Lit(<<".","e","n","v",".">>) \o NonSlashPlus,
       Lit(<<"c","r","e","d","e","n","t","i","a","l","s",".">>) \o NonSlashPlus,
       Lit(<<"s","e","c","r","e","t">>) \o <<<<"opt", "s">>>> \o Lit(<<".">>) \o NonSlashPlus,
       Lit(<<".","a","w","s","/","c","r","e","d","e","n","t","i","a","l","s">>),
       Lit(<<".","s","s","h","/","i","d","_">>) \o NonSlashPlus,
       Lit(<<".","s","s","h","/","k","n","o","w","n","_","h","o","s","t","s">>),
       Lit(<<".","n","e","t","r","c">>),
       Lit(<<".","p","g","p","a","s","s">>),
       Lit(<<".","n","p","m","r","c">>),
       Lit(<<".","p","y","p","i","r","c">>),
       Lit(<<"t","o","k","e","n">>) \o NonSlashStar \o Lit(<<".","j","s","o","n">>),
       Lit(<<"a","u","t","h">>) \o NonSlashStar \o Lit(<<".","j","s","o","n">>),
       Lit(<<"a","p","i","k","e","y">>) \o NonSlashStar >>

\* isCredentialTarget (lines 94-97): an undefined or empty target is no match.
isCredentialTarget(target) ==
    IF target = NoTarget \/ target = <<>> THEN FALSE
    ELSE \E i \in DOMAIN CREDENTIAL_PATTERNS :
            TestSuffixIgnoreCase(CREDENTIAL_PATTERNS[i], target)

\* TOOL_CATEGORIES is an object literal, so TOOL_CATEGORIES[toolName] also finds
\* the members it inherits from Object.prototype; these are some of them.
ObjectPrototypeKeys == {"constructor", "toString", "valueOf", "hasOwnProperty"}

\* What TOOL_CATEGORIES[k] is for an inherited k: a function, which is not
\* nullish and equals no category; written here as a string that names it.
Inherited(k) == "Object.prototype member"

\* TOOL_CATEGORIES (lines 115-127) and classifyTool (lines 129-131).
classifyTool(toolName) ==
    CASE toolName \in {"Read", "Glob", "Grep"} -> "file_read"
      [] toolName \in {"Write", "Edit", "NotebookEdit"} -> "file_write"
      [] toolName = "Bash" -> "command"
      [] toolName \in {"WebFetch", "WebSearch"} -> "network"
      [] toolName = "Task" -> "delegation"
      [] toolName = "TodoWrite" -> "state"
      [] toolName \in ObjectPrototypeKeys -> Inherited(toolName)
      [] OTHER -> "unknown"

\* classifyToolWithTarget (lines 137-149); line 138 is the lookup of classifyTool.
classifyToolWithTarget(toolName, target) ==
    LET baseCategory == classifyTool(toolName)
    IN  IF baseCategory \in {"file_read", "file_write"} /\ isCredentialTarget(target)
            THEN "credential_access"
            ELSE baseCategory

(***************************************************************************)
(* r6.ts: targets.  params is the tool's parameter object.                 *)
(***************************************************************************)
\* if (params.k): the field is there and is not the empty string.
Truthy(params, k) == HasKey(params, k) /\ Get(params, k) # <<>>

\* The length from which extractTarget cuts a command (line 169).
CommandCut == 80

Ellipsis == <<".", ".", ".">>

\* extractTarget (lines 160-173).
\* extractTarget taking a key for present as soon as the object has it, empty
\* value or not.
extractTargetPresent(toolName, params) ==
    IF HasKey(params, "file_path") THEN Get(params, "file_path")
    ELSE IF HasKey(params, "path") THEN Get(params, "path")
    ELSE IF HasKey(params, "pattern") THEN Get(params, "pattern")
    ELSE IF HasKey(params, "command")
        THEN LET cmd == Get(params, "command")
             IN  IF Len(cmd) > CommandCut
                     THEN SubSeq(cmd, 1, CommandCut) \o Ellipsis ELSE cmd
    ELSE IF HasKey(params, "url") THEN Get(params, "url")
    ELSE NoTarget

extractTarget(toolName, params) ==
    IF Truthy(params, "file_path") THEN Get(params, "file_path")
    ELSE IF Truthy(params, "path") THEN Get(params, "path")
    ELSE IF Truthy(params, "pattern") THEN Get(params, "pattern")
    ELSE IF Truthy(params, "command")
        THEN LET cmd == Get(params, "command")
             IN  IF Len(cmd) > CommandCut
                     THEN SubSeq(cmd, 1, CommandCut) \o Ellipsis ELSE cmd
    ELSE IF Truthy(params, "url") THEN Get(params, "url")
    ELSE NoTarget

WhiteSpace == {" ", "\t", "\n", "\r"}
Quotes == {"`", "\"", "'"}
\* [^\s;|&<>'"]: what a path in a command may consist of.
CommandStops == WhiteSpace \cup {";", "|", "&", "<", ">", "'", "\""}
\* [^\s,;:]: what a standalone path in a text may consist of.
TextStops == WhiteSpace \cup {",", ";", ":"}
\* [^`"'\s]
QuotedStops == WhiteSpace \cup Quotes
Digits == {"0", "1", "2", "3", "4", "5", "6", "7", "8", "9"}
IsAlnum(c) ==
    \/ c \in Digits
    \/ \E i \in DOMAIN LowerCase : LowerCase[i] = c \/ UpperCase[i] = c

\* The last index of the longest run of characters outside stops that starts
\* at i (i - 1 when there is none).
RECURSIVE RunEnd(_, _, _)
RunEnd(s, i, stops) ==
    IF i <= Len(s) /\ s[i] \notin stops THEN RunEnd(s, i + 1, stops) ELSE i - 1

RECURSIVE AlnumEnd(_, _)
AlnumEnd(s, i) == IF i <= Len(s) /\ IsAlnum(s[i]) THEN AlnumEnd(s, i + 1) ELSE i - 1

\* (?:^|\s) before a group that starts at g, the search having started at from.
Leads(s, g, from) ==
    \/ g = 1 /\ from = 1
    \/ g > 1 /\ g - 1 >= from /\ s[g - 1] \in WhiteSpace

\* c[^stops]+ at g: the index of the last character matched, or 0.
PrefixedRunEnd(s, g, first, stops) ==
    IF g + Len(first) <= Len(s)
       /\ SubSeq(s, g, g + Len(first) - 1) = first
       /\ s[g + Len(first)] \notin stops
        THEN RunEnd(s, g + Len(first), stops)
        ELSE 0

\* [^stops]+\.[a-zA-Z0-9]+ from a: the run is as long as it can be with a dot
\* and an alphanumeric after it; the index of the last character, or 0.
ExtensionEnd(s, a, stops) ==
    LET r == RunEnd(s, a, stops)
        dots == {d \in (a + 1)..r : s[d] = "." /\ d + 1 <= Len(s) /\ IsAlnum(s[d + 1])}
    IN  IF dots = {} THEN 0
        ELSE AlnumEnd(s, (CHOOSE d \in dots : \A e \in dots : e <= d) + 1)

\* \.{0,2}\/[^stops]+\.[a-zA-Z0-9]+ at g.
RelativeEnd(s, g) ==
    LET slashes == {d \in 0..2 : /\ g + d <= Len(s)
                                 /\ s[g + d] = "/"
                                 /\ \A e \in 0..(d - 1) : s[g + e] = "."}
    IN  IF slashes = {} THEN 0
        ELSE ExtensionEnd(s, g + (CHOOSE d \in slashes : TRUE) + 1, CommandStops)

\* Where the group of one of extractPathsFromCommand's three expressions ends
\* when it matches at g (0 when it does not): "abs" \/[^stops]+, "rel"
\* \.{0,2}\/[^stops]+\.[a-zA-Z0-9]+, "home" ~\/[^stops]+.
GroupEnd(kind, s, g) ==
    CASE kind = "abs" -> PrefixedRunEnd(s, g, <<"/">>, CommandStops)
      [] kind = "rel" -> RelativeEnd(s, g)
      [] kind = "home" -> PrefixedRunEnd(s, g, <<"~", "/">>, CommandStops)

\* All matches of /(?:^|\s)(group)/g, in order.
RECURSIVE LedMatches(_, _, _, _)
LedMatches(kind, s, g, from) ==
    IF g > Len(s) THEN <<>>
    ELSE IF Leads(s, g, from) /\ GroupEnd(kind, s, g) > 0
        THEN <<SubSeq(s, g, GroupEnd(kind, s, g))>>
             \o LedMatches(kind, s, GroupEnd(kind, s, g) + 1, GroupEnd(kind, s, g) + 1)
        ELSE LedMatches(kind, s, g + 1, from)

StartsWith(s, prefix) ==
    Len(s) >= Len(prefix) /\ SubSeq(s, 1, Len(prefix)) = prefix

\* extractPathsFromCommand (lines 224-251).
extractPathsFromCommand(cmd) ==
    LET abs == LedMatches("abs", cmd, 1, 1)
        kept == SelectSeq(abs, LAMBDA path :
                    /\ ~StartsWith(path, <<"/","d","e","v","/">>)
                    /\ ~StartsWith(path, <<"/","p","r","o","c","/">>)
                    /\ ~StartsWith(path, <<"/","s","y","s","/">>))
        rel == LedMatches("rel", cmd, 1, 1)
        home == LedMatches("home", cmd, 1, 1)
    IN  kept \o rel \o home

\* /[`"']([/~][^`"'\s]+)[`"']/g from index p on.
RECURSIVE QuotedMatches(_, _)
QuotedMatches(text, p) ==
    IF p + 3 > Len(text) THEN <<>>
    ELSE LET e == IF text[p] \in Quotes /\ text[p + 1] \in {"/", "~"}
                     /\ text[p + 2] \notin QuotedStops
                      THEN RunEnd(text, p + 2, QuotedStops) ELSE 0
         IN  IF e > 0 /\ e + 1 <= Len(text) /\ text[e + 1] \in Quotes
                 THEN <<SubSeq(text, p + 1, e)>> \o QuotedMatches(text, e + 2)
                 ELSE QuotedMatches(text, p + 1)

\* /\s(\/[^\s,;:]+\.[a-zA-Z0-9]+)/g from group index g on.
RECURSIVE SpacedMatches(_, _, _)
SpacedMatches(text, g, from) ==
    IF g > Len(text) THEN <<>>
    ELSE LET e == IF g > 1 /\ g - 1 >= from /\ text[g - 1] \in WhiteSpace /\ text[g] = "/"
                      THEN ExtensionEnd(text, g + 1, TextStops) ELSE 0
         IN  IF e > 0
                 THEN <<SubSeq(text, g, e)>> \o SpacedMatches(text, e + 1, e + 1)
                 ELSE SpacedMatches(text, g + 1, from)

\* extractPathsFromText (lines 257-274).
extractPathsFromText(text) == QuotedMatches(text, 1) \o SpacedMatches(text, 1, 1)

\* [...new Set(targets)]: the first occurrence of each element, in order.
RECURSIVE Dedup(_)
Dedup(list) ==
    IF list = <<>> THEN <<>>
    ELSE LET init == Dedup(SubSeq(list, 1, Len(list) - 1))
             last == list[Len(list)]
         IN  IF \E i \in DOMAIN init : init[i] = last THEN init ELSE Append(init, last)

\* extractTargets (lines 179-218).
extractTargets(toolName, params) ==
    LET Push(k) == IF Truthy(params, k) THEN <<Get(params, k)>> ELSE <<>>
    IN  Dedup(Push("file_path") \o Push("path") \o Push("pattern") \o Push("url")
              \o (IF Truthy(params, "command") /\ toolName = "Bash"
                      THEN extractPathsFromCommand(Get(params, "command")) ELSE <<>>)
              \o (IF Truthy(params, "prompt") /\ toolName = "Task"
                      THEN extractPathsFromText(Get(params, "prompt")) ELSE <<>>)
              \o (IF Truthy(params, "glob") /\ toolName = "Grep"
                      THEN Push("glob") ELSE <<>>))

\* hashInput (lines 151-153): the hash of the serialised params.
hashInput(params) == Sha16(StringifyFlat(params))

\* createR6Request (lines 276-323); uuid8 is randomUUID().slice(0, 8).
createR6Request(sessionId, agentId, toolName, params, actionIndex, prevR6Id, auditLevel, policyEntityId, uuid8) ==
    LET primaryTarget == extractTarget(toolName, params)
        allTargets == extractTargets(toolName, params)
        hasMultipleTargets ==
            \/ Len(allTargets) > 1
            \/ Len(allTargets) = 1 /\ allTargets[1] # primaryTarget
    IN  [id |-> <<"r6:", uuid8>>,
         timestamp |-> now,
         rules |-> [auditLevel |-> auditLevel,
                    constraints |-> <<>>,
                    policyEntityId |-> policyEntityId],
         role |-> [sessionId |-> sessionId,
                   agentId |-> agentId,
                   actionIndex |-> actionIndex,
                   bindingType |-> "soft-lct"],
         request |-> [toolName |-> toolName,
                      category |-> classifyTool(toolName),
                      target |-> primaryTarget,
                      targets |-> IF hasMultipleTargets THEN allTargets ELSE NoTargets,
                      inputHash |-> hashInput(params)],
         reference |-> [sessionId |-> sessionId,
                        prevR6Id |-> prevR6Id,
                        chainPosition |-> actionIndex],
         resource |-> [approvalRequired |-> FALSE]]

(***************************************************************************)
(* R6 requests as AuditChain.record reads them.                            *)
(***************************************************************************)

\* r6.id is "r6:" followed by the first 8 characters of a random UUID, here
\* the pair of the two.
\* id.slice(3): the id without its first three characters.
Slice3(id) == id[2]

(***************************************************************************)
(* AuditChain.record (audit.ts 110-140).                                   *)
(***************************************************************************)
\* A variant that numbers the record by the chain's own count of records.
buildRecordCounted(r6, result, ph) ==
    << Def("recordId", <<"audit:", Slice3(r6.id)>>),
       Def("r6RequestId", r6.id),
       Def("timestamp", now),
       Def("tool", r6.request.toolName),
       Def("category", r6.request.category),
       Def("result", result),
       Def("provenance",
           << Def("sessionId", SessionId),
              Def("actionIndex", recordCount + 1),
              Def("prevRecordHash", ph) >>) >>

\* A variant that copies the request's constraints into the record.
buildRecordWithRules(r6, result, ph) ==
    << Def("recordId", <<"audit:", Slice3(r6.id)>>),
       Def("r6RequestId", r6.id),
       Def("timestamp", now),
       Def("tool", r6.request.toolName),
       Def("category", r6.request.category),
       Def("constraints", r6.rules.constraints),
       Def("result", result),
       Def("provenance",
           << Def("sessionId", SessionId),
              Def("actionIndex", r6.role.actionIndex),
              Def("prevRecordHash", ph) >>) >>

\* Lines 111-125: the record object of the chain of session sessionId, fields
\* in the order the literal lists them.
buildRecordOf(sessionId, r6, result, ph) ==
    << Def("recordId", <<"audit:", Slice3(r6.id)>>),
       Def("r6RequestId", r6.id),
       Def("timestamp", now),
       Def("tool", r6.request.toolName),
       Def("category", r6.request.category),
       IF r6.request.target = NoTarget
           THEN Undef("target") ELSE Def("target", r6.request.target),
       IF r6.request.targets = NoTargets
           THEN Undef("targets") ELSE Def("targets", r6.request.targets),
       Def("result", result),
       Def("provenance",
           << Def("sessionId", sessionId),
              Def("actionIndex", r6.role.actionIndex),
              Def("prevRecordHash", ph) >>) >>

\* The record object of the chain of the session SessionId.
buildRecord(r6, result, ph) == buildRecordOf(SessionId, r6, result, ph)

\* A variant that adds signingKeyId first and signs the record with it.
signRecordWithKeyId(record, sg) ==
    IF sg = NoSigning
        THEN record
        ELSE LET keyed == Append(record, Def("signingKeyId", KeyId(sg)))
             IN  SubSeq(keyed, 1, Len(record)) \o
                 << Def("signature", signData(JSONstringify(keyed), PrivateKeyHex(sg))),
                    Def("signingKeyId", KeyId(sg)) >>

\* Lines 128-132: sign the serialisation of the record as it stands, then add
\* the signature fields.
signRecord(record, sg) ==
    IF sg = NoSigning
        THEN record
        ELSE record \o
             << Def("signature", signData(JSONstringify(record), PrivateKeyHex(sg))),
                Def("signingKeyId", KeyId(sg)) >>

\* A variant that writes the line twice.
recordAppendsTwice(r6, result) ==
    LET record == signRecord(buildRecord(r6, result, prevHash), signing)
        line == JSONstringify(record)
    IN  /\ log' = log \o <<line, line>>
        /\ prevHash' = Sha16(line)
        /\ recordCount' = recordCount + 1
        /\ signing' = signing
        /\ ret' = [op |-> "record", raised |-> FALSE, value |-> record]

\* A variant that appends and counts but leaves prevHash where it was.
recordAppendsStale(r6, result) ==
    LET record == signRecord(buildRecord(r6, result, prevHash), signing)
        line == JSONstringify(record)
    IN  /\ log' = Append(log, line)
        /\ prevHash' = prevHash
        /\ recordCount' = recordCount + 1
        /\ signing' = signing
        /\ ret' = [op |-> "record", raised |-> FALSE, value |-> record]

\* Lines 134-139 when appendFileSync returns: the line is on disk, the chain
\* moves on to it and the record is returned.
recordAppends(r6, result) ==
    LET record == signRecord(buildRecord(r6, result, prevHash), signing)
        line == JSONstringify(record)
    IN  /\ log' = Append(log, line)
        /\ prevHash' = Sha16(line)
        /\ recordCount' = recordCount + 1
        /\ signing' = signing
        /\ ret' = [op |-> "record", raised |-> FALSE, value |-> record]

\* A variant that moves the chain on before the append is known to have worked.
recordRaisesAdvanced(r6, result) ==
    /\ prevHash' = Sha16(JSONstringify(signRecord(buildRecord(r6, result, prevHash), signing)))
    /\ recordCount' = recordCount + 1
    /\ UNCHANGED <<log, signing>>
    /\ ret' = [op |-> "record", raised |-> TRUE, value |-> <<>>]

\* Lines 134-135 when appendFileSync throws: nothing catches it, so the two
\* assignments after it do not run and the exception reaches the caller.
recordRaises(r6, result) ==
    /\ UNCHANGED chainVars
    /\ ret' = [op |-> "record", raised |-> TRUE, value |-> <<>>]

(***************************************************************************)
(* AuditChain.verify (audit.ts 147-204).                                   *)
(***************************************************************************)
NoStats == [signed |-> 0, verified |-> 0, unverified |-> 0, invalid |-> 0]

\* publicKeys?.get(keyId): the map is a sequence of <<keyId, publicKeyHex>>
\* entries; an absent map answers like an empty one.
HasPublicKey(publicKeys, keyId) == \E i \in DOMAIN publicKeys : publicKeys[i][1] = keyId

GetPublicKey(publicKeys, keyId) ==
    publicKeys[CHOOSE i \in DOMAIN publicKeys : publicKeys[i][1] = keyId][2]

\* Line 185: the record without its signature and signingKeyId, order kept.
unsignedRecord(record) ==
    SelectSeq(record, LAMBDA f : f[1] \notin {"signature", "signingKeyId"})

\* A loop body that counts a signature it has no key for as invalid.
verifyLineKeyRequired(line, i, st, publicKeys) ==
    IF ~Parseable(line)
        THEN [st EXCEPT !.errors = Append(@, <<i, "parse error">>)]
    ELSE LET record == JSONparse(line) IN
    IF ~HasKey(record, "provenance")
        \* record.provenance.prevRecordHash throws a TypeError, caught at 198
        THEN [st EXCEPT !.errors = Append(@, <<i, "parse error">>)]
    ELSE
    LET prov == Get(record, "provenance")
        linked == HasKey(prov, "prevRecordHash") /\ Get(prov, "prevRecordHash") = st.prevHash
        e1 == IF linked THEN st.errors ELSE Append(st.errors, <<i, "hash mismatch">>)
        isSigned == HasKey(record, "signature") /\ HasKey(record, "signingKeyId")
        keyId == Get(record, "signingKeyId")
        known == isSigned
        good == known /\ HasPublicKey(publicKeys, keyId) /\
                verifySignature(JSONstringify(unsignedRecord(record)),
                                         Get(record, "signature"),
                                         GetPublicKey(publicKeys, keyId))
    IN  [prevHash |-> Sha16(line),
         errors |-> IF known /\ ~good THEN Append(e1, <<i, "invalid signature">>) ELSE e1,
         stats |-> [signed |-> st.stats.signed + (IF isSigned THEN 1 ELSE 0),
                    verified |-> st.stats.verified + (IF good THEN 1 ELSE 0),
                    unverified |-> st.stats.unverified + (IF isSigned /\ ~known THEN 1 ELSE 0),
                    invalid |-> st.stats.invalid + (IF known /\ ~good THEN 1 ELSE 0)]]

\* The try block of lines 167-200 for line i (0-based) with the running state
\* st = [prevHash, errors, stats].
verifyLine(line, i, st, publicKeys) ==
    IF ~Parseable(line)
        THEN [st EXCEPT !.errors = Append(@, <<i, "parse error">>)]
    ELSE LET record == JSONparse(line) IN
    IF ~HasKey(record, "provenance")
        \* record.provenance.prevRecordHash throws a TypeError, caught at 198
        THEN [st EXCEPT !.errors = Append(@, <<i, "parse error">>)]
    ELSE
    LET prov == Get(record, "provenance")
        linked == HasKey(prov, "prevRecordHash") /\ Get(prov, "prevRecordHash") = st.prevHash
        e1 == IF linked THEN st.errors ELSE Append(st.errors, <<i, "hash mismatch">>)
        isSigned == HasKey(record, "signature") /\ HasKey(record, "signingKeyId")
        keyId == Get(record, "signingKeyId")
        known == isSigned /\ HasPublicKey(publicKeys, keyId)
        good == known /\ verifySignature(JSONstringify(unsignedRecord(record)),
                                         Get(record, "signature"),
                                         GetPublicKey(publicKeys, keyId))
    IN  [prevHash |-> Sha16(line),
         errors |-> IF known /\ ~good THEN Append(e1, <<i, "invalid signature">>) ELSE e1,
         stats |-> [signed |-> st.stats.signed + (IF isSigned THEN 1 ELSE 0),
                    verified |-> st.stats.verified + (IF good THEN 1 ELSE 0),
                    unverified |-> st.stats.unverified + (IF isSigned /\ ~known THEN 1 ELSE 0),
                    invalid |-> st.stats.invalid + (IF known /\ ~good THEN 1 ELSE 0)]]

\* A loop over the lines that gives up at the first error.
RECURSIVE verifyLinesUntilError(_, _, _, _)
verifyLinesUntilError(lines, i, st, publicKeys) ==
    IF i >= Len(lines) \/ st.errors # <<>>
        THEN st
        ELSE verifyLinesUntilError(lines, i + 1,
                 verifyLine(lines[i + 1], i, st, publicKeys), publicKeys)

\* Lines 166-201: the loop over the lines.
RECURSIVE verifyLines(_, _, _, _)
verifyLines(lines, i, st, publicKeys) ==
    IF i >= Len(lines)
        THEN st
        ELSE verifyLines(lines, i + 1, verifyLine(lines[i + 1], i, st, publicKeys), publicKeys)

\* A verify that also holds the file against the chain's own count and head:
\* a file shorter than the records the chain has written is an error.
verifyReportAnchored(lines, publicKeys) ==
    LET st == verifyLines(lines, 0,
                  [prevHash |-> Genesis, errors |-> <<>>, stats |-> NoStats], publicKeys)
        errors == IF Len(lines) # recordCount \/ st.prevHash # prevHash
                      THEN Append(st.errors, <<Len(lines), "truncated">>) ELSE st.errors
    IN  [valid |-> errors = <<>>,
         recordCount |-> Len(lines),
         errors |-> errors,
         signatureStats |-> st.stats]

\* The report of verify(publicKeys) on the file as it is.
verifyReport(lines, publicKeys) ==
    LET st == verifyLines(lines, 0,
                  [prevHash |-> Genesis, errors |-> <<>>, stats |-> NoStats], publicKeys)
    IN  [valid |-> st.errors = <<>>,
         recordCount |-> Len(lines),
         errors |-> st.errors,
         signatureStats |-> st.stats]

\* A verify whose loop keeps its running hash in the chain's own prevHash.
verifySharedHead(publicKeys) ==
    /\ ret' = [op |-> "verify", raised |-> FALSE, value |-> verifyReport(log, publicKeys),
               keys |-> publicKeys]
    /\ prevHash' = verifyLines(log, 0, [prevHash |-> Genesis, errors |-> <<>>,
                                        stats |-> NoStats], publicKeys).prevHash
    /\ UNCHANGED <<log, recordCount, signing>>

\* Lines 147-204.
verify(publicKeys) ==
    /\ ret' = [op |-> "verify", raised |-> FALSE, value |-> verifyReport(log, publicKeys),
               keys |-> publicKeys]
    /\ UNCHANGED chainVars

(***************************************************************************)
(* AuditChain.record of the chain of a second session (audit.ts 110-140):  *)
(* its own file, prevHash and recordCount, held in peer.                   *)
(***************************************************************************)
PeerId == "s2"

\* Each session signs with a key of its own, or none does.
peerSigning == IF signing = NoSigning THEN NoSigning ELSE OtherKey

\* A variant in which prevHash is one field shared by all chains.
peerRecordSharedHead(r6, result) ==
    LET record == signRecord(buildRecordOf(PeerId, r6, result, prevHash), peerSigning)
        line == JSONstringify(record)
    IN  /\ peer' = [log |-> Append(peer.log, line), prevHash |-> Sha16(line),
                    recordCount |-> peer.recordCount + 1]
        /\ ret' = [op |-> "record", raised |-> FALSE, value |-> record]

peerRecordAppends(r6, result) ==
    LET record == signRecord(buildRecordOf(PeerId, r6, result, peer.prevHash), peerSigning)
        line == JSONstringify(record)
    IN  /\ peer' = [log |-> Append(peer.log, line), prevHash |-> Sha16(line),
                    recordCount |-> peer.recordCount + 1]
        /\ ret' = [op |-> "record", raised |-> FALSE, value |-> record]

(***************************************************************************)
(* The AuditChain constructor and loadExisting (audit.ts 82-108).          *)
(***************************************************************************)
\* A constructor that counts the lines of the file and keeps the initial
\* prevHash.
loadExistingCountOnly(sg) ==
    /\ signing' = sg
    /\ log' = log
    /\ prevHash' = Genesis
    /\ recordCount' = Len(log)
    /\ ret' = [op |-> "construct", raised |-> FALSE, value |-> <<>>]

\* A new AuditChain over the session's file, which is read without error.
loadExisting(sg) ==
    /\ signing' = sg
    /\ log' = log
    /\ IF log = <<>>
          THEN prevHash' = Genesis /\ recordCount' = 0
          ELSE prevHash' = Sha16(log[Len(log)]) /\ recordCount' = Len(log)
    /\ ret' = [op |-> "construct", raised |-> FALSE, value |-> <<>>]

\* readFileSync throws: the catch of line 105 leaves the fields at their
\* initial values.
loadExistingFails(sg) ==
    /\ log # <<>>
    /\ signing' = sg
    /\ log' = log
    /\ prevHash' = Genesis
    /\ recordCount' = 0
    /\ ret' = [op |-> "construct", raised |-> FALSE, value |-> <<>>]

(***************************************************************************)
(* PersistentRateLimiter (README.md 387-578).  The limiter is the record   *)
(* [isPersistent, db, memoryFallback]: db is the rate_limits table, rows   *)
(* [key, timestamp] in insertion order; memoryFallback maps a key to its   *)
(* list of timestamps.                                                     *)
(***************************************************************************)
\* A variant that allows the call that reaches the limit's count plus one.
checkInclusive(L, key, maxCount, windowMs) ==
    LET cutoff == now - windowMs
        events == IF L.isPersistent
                      THEN SelectSeq(L.db, LAMBDA row : row.key = key /\ row.timestamp > cutoff)
                  ELSE IF key \in DOMAIN L.memoryFallback
                      THEN SelectSeq(L.memoryFallback[key], LAMBDA t : t > cutoff)
                  ELSE <<>>
    IN  [result |-> [allowed |-> Len(events) <= maxCount,
                     current |-> Len(events), limit |-> maxCount],
         limiter |-> L]

\* A variant whose window keeps the event that is exactly windowMs old.
checkClosedWindow(L, key, maxCount, windowMs) ==
    LET cutoff == now - windowMs
        events == IF L.isPersistent
                      THEN SelectSeq(L.db, LAMBDA row : row.key = key /\ row.timestamp >= cutoff)
                  ELSE IF key \in DOMAIN L.memoryFallback
                      THEN SelectSeq(L.memoryFallback[key], LAMBDA t : t >= cutoff)
                  ELSE <<>>
    IN  [result |-> [allowed |-> Len(events) < maxCount,
                     current |-> Len(events), limit |-> maxCount],
         limiter |-> L]

\* check (lines 458-491): the result and the limiter after the pruning.
check(L, key, maxCount, windowMs) ==
    LET cutoff == now - windowMs IN
    IF L.isPersistent
        THEN LET pruned == SelectSeq(L.db,
                               LAMBDA row : ~(row.key = key /\ row.timestamp <= cutoff))
                 current == Len(SelectSeq(pruned,
                               LAMBDA row : row.key = key /\ row.timestamp > cutoff))
             IN  [result |-> [allowed |-> current < maxCount,
                              current |-> current, limit |-> maxCount],
                  limiter |-> [L EXCEPT !.db = pruned]]
    ELSE IF key \notin DOMAIN L.memoryFallback
        THEN [result |-> [allowed |-> TRUE, current |-> 0, limit |-> maxCount],
              limiter |-> L]
    ELSE LET pruned == SelectSeq(L.memoryFallback[key], LAMBDA t : t > cutoff)
         IN  [result |-> [allowed |-> Len(pruned) < maxCount,
                          current |-> Len(pruned), limit |-> maxCount],
              limiter |-> [L EXCEPT !.memoryFallback[key] = pruned]]

\* record that starts the key's list afresh: the key's earlier events are gone.
limiterRecordFresh(L, key) ==
    IF L.isPersistent
        THEN [L EXCEPT !.db = Append(SelectSeq(@, LAMBDA row : row.key # key),
                                     [key |-> key, timestamp |-> now])]
    ELSE [L EXCEPT !.memoryFallback =
              [k \in DOMAIN @ \cup {key} |-> IF k = key THEN <<now>> ELSE @[k]]]

\* record (lines 494-509): the limiter after one event for key at now.
limiterRecord(L, key) ==
    IF L.isPersistent
        THEN [L EXCEPT !.db = Append(@, [key |-> key, timestamp |-> now])]
    ELSE IF key \in DOMAIN L.memoryFallback
        THEN [L EXCEPT !.memoryFallback[key] = Append(@, now)]
    ELSE [L EXCEPT !.memoryFallback =
              [k \in DOMAIN @ \cup {key} |-> IF k = key THEN <<now>> ELSE @[k]]]

\* prune (lines 511-535): the number of events removed and the limiter after.
limiterPrune(L, windowMs) ==
    LET cutoff == now - windowMs IN
    IF L.isPersistent
        THEN LET kept == SelectSeq(L.db, LAMBDA row : ~(row.timestamp <= cutoff))
             IN  [result |-> Len(L.db) - Len(kept), limiter |-> [L EXCEPT !.db = kept]]
    ELSE LET filtered(k) == SelectSeq(L.memoryFallback[k], LAMBDA t : t > cutoff)
             keys == {k \in DOMAIN L.memoryFallback : Len(filtered(k)) # 0}
             RECURSIVE Sum(_)
             Sum(ks) == IF ks = {} THEN 0
                        ELSE LET k == CHOOSE x \in ks : TRUE
                             IN  Len(L.memoryFallback[k]) - Len(filtered(k)) + Sum(ks \ {k})
         IN  [result |-> Sum(DOMAIN L.memoryFallback),
              limiter |-> [L EXCEPT !.memoryFallback = [k \in keys |-> filtered(k)]]]

\* count (lines 537-550): the events of key younger than windowMs; no pruning.
limiterCount(L, key, windowMs) ==
    LET cutoff == now - windowMs IN
    IF L.isPersistent
        THEN Len(SelectSeq(L.db, LAMBDA row : row.key = key /\ row.timestamp > cutoff))
    ELSE IF key \notin DOMAIN L.memoryFallback THEN 0
    ELSE Len(SelectSeq(L.memoryFallback[key], LAMBDA t : t > cutoff))

\* keyCount (lines 552-559): SELECT DISTINCT key, or the size of the map.
keyCount(L) ==
    IF L.isPersistent
        THEN Cardinality({L.db[j].key : j \in DOMAIN L.db})
    ELSE Cardinality(DOMAIN L.memoryFallback)

RECURSIVE limiterRecordAll(_, _)
limiterRecordAll(L, keys) ==
    IF keys = <<>> THEN L
    ELSE limiterRecordAll(limiterRecord(L, keys[1]), Tail(keys))

(***************************************************************************)
(* The policy engine: rule order, time windows, rate keys, evaluate.       *)
(***************************************************************************)
\* The rule indices by ascending priority, insertion order among equals.
RECURSIVE sortByPriority(_, _)
sortByPriority(rules, left) ==
    IF left = {} THEN <<>>
    ELSE LET first == CHOOSE i \in left : \A j \in left :
                          \/ rules[i].priority < rules[j].priority
                          \/ rules[i].priority = rules[j].priority /\ i <= j
         IN  <<first>> \o sortByPriority(rules, left \ {first})

\* The time-window clause at local hour and day of the week.
matchesTimeWindow(timeWindow, hour, day) ==
    /\ HasKey(timeWindow, "allowedHours") =>
          LET start == Get(timeWindow, "allowedHours")[1]
              end == Get(timeWindow, "allowedHours")[2]
          IN  IF start <= end
                  THEN start <= hour /\ hour < end
                  ELSE hour >= start \/ hour < end
    /\ HasKey(timeWindow, "allowedDays") =>
          \E i \in DOMAIN Get(timeWindow, "allowedDays") :
              Get(timeWindow, "allowedDays")[i] = day

\* The rate key of a rule for a call.
rateKey(rule, toolName, category) ==
    IF HasKey(rule.match, "tools") THEN <<"ratelimit", rule.id, "tool", toolName>>
    ELSE IF HasKey(rule.match, "categories")
        THEN <<"ratelimit", rule.id, "category", category>>
    ELSE <<"ratelimit", rule.id, "global", "">>

\* A variant that reports every decision as enforced.
enforcedAlways(enforce, decision) == TRUE

\* enforced of an evaluation.
enforcedOf(enforce, decision) == enforce \/ decision # "deny"

\* The rules from position i of the order on: the first whose clauses all hold.
\* under is the list of rate keys checked and found under their limit so far.
RECURSIVE evaluateFrom(_, _, _, _, _)
evaluateFrom(order, i, L, call, under) ==
    IF i > Len(order)
        THEN [matched |-> 0, limiter |-> L, under |-> under, constraints |-> <<>>]
    ELSE LET rule == config.rules[order[i]]
             key == rateKey(rule, call.toolName, call.category)
             rl == Get(rule.match, "rateLimit")
             checked == check(L, key, rl.maxCount, rl.windowMs)
         IN  IF ~matchesRule(call.toolName, call.category, call.target, rule.match)
                 THEN evaluateFrom(order, i + 1, L, call, under)
             ELSE IF /\ HasKey(rule.match, "timeWindow")
                     /\ ~matchesTimeWindow(Get(rule.match, "timeWindow"), call.hour, call.day)
                 THEN evaluateFrom(order, i + 1, L, call, under)
             ELSE IF ~HasKey(rule.match, "rateLimit")
                 THEN [matched |-> order[i], limiter |-> L, under |-> under,
                       constraints |-> <<<<"ruleId", rule.id>>>>]
             ELSE IF checked.result.allowed
                 THEN evaluateFrom(order, i + 1, checked.limiter, call, Append(under, key))
             ELSE [matched |-> order[i], limiter |-> checked.limiter, under |-> under,
                   constraints |-> <<<<"ruleId", rule.id>>, <<"rateKey", key>>>>]

\* evaluate(tool, category, target) at the call's local hour and day: the
\* PolicyEvaluation, with the limiter as the checks left it.
evaluate(L, call) ==
    LET found == evaluateFrom(sortByPriority(config.rules, DOMAIN config.rules), 1,
                              L, call, <<>>)
        decision == IF found.matched = 0
                        THEN config.defaultPolicy
                        ELSE config.rules[found.matched].decision
    IN  [decision |-> decision,
         matchedRule |-> found.matched,
         enforced |-> enforcedOf(config.enforce, decision),
         constraints |-> found.constraints,
         under |-> found.under,
         limiter |-> found.limiter]

\* What pre-call hands back to the host.
gateVerdict(evaluation) ==
    [block |-> evaluation.decision = "deny" /\ evaluation.enforced,
     decision |-> IF evaluation.decision = "deny" /\ ~evaluation.enforced
                      THEN "allow" ELSE evaluation.decision,
     enforced |-> evaluation.enforced,
     ruleId |-> IF evaluation.matchedRule = 0
                    THEN "" ELSE config.rules[evaluation.matchedRule].id]

(***************************************************************************)
(* Inputs: tool calls, policy configurations, identifiers.                 *)
(***************************************************************************)
CallRm == [toolName |-> "Bash",
           params |-> <<Def("command", <<"r", "m", " ", "-", "r", " ", "/", "t">>)>>]
CallEnv == [toolName |-> "Read",
            params |-> <<Def("file_path", <<"/", ".", "e", "n", "v">>)>>]
CallRead == [toolName |-> "Read",
             params |-> <<Def("file_path", <<"/", "a">>)>>]
CallTodo == [toolName |-> "TodoWrite", params |-> <<>>]
Calls == {CallRm, CallEnv, CallRead}

UUIDs == {"0a1b2c3d"}
NoR6Id == <<"undefined">>
NoAgent == <<"undefined">>

\* A rule with a rate-limit clause: at most two Bash calls in a window of two.
RuleRate ==
    [id |-> "limit-bash", priority |-> 1, decision |-> "deny",
     match |-> <<Def("tools", <<"Bash">>),
                 Def("rateLimit", [maxCount |-> 2, windowMs |-> 2])>>]
\* Rules of the safety preset.
RuleDestructive ==
    [id |-> "deny-destructive-commands", priority |-> 1, decision |-> "deny",
     match |-> <<Def("tools", <<"Bash">>),
                 Def("targetPatterns", <<<<"r", "m", " ", "-", "*", "*">>,
                                        <<"m", "k", "f", "s", ".", "*", "*">>>>)>>]
RuleSecret ==
    [id |-> "deny-secret-files", priority |-> 5, decision |-> "deny",
     match |-> <<Def("categories", <<"credential_access">>)>>]
RuleNetwork ==
    [id |-> "warn-network", priority |-> 20, decision |-> "warn",
     match |-> <<Def("categories", <<"network">>)>>]
\* The rule of the strict preset.
RuleReadTools ==
    [id |-> "allow-read-tools", priority |-> 1, decision |-> "allow",
     match |-> <<Def("tools", <<"Read", "Glob", "Grep", "TodoWrite">>)>>]
\* A rule with a time window: no shell outside office hours.
RuleOffHours ==
    [id |-> "deny-off-hours", priority |-> 1, decision |-> "deny",
     match |-> <<Def("tools", <<"Bash">>),
                 Def("timeWindow", <<Def("allowedHours", <<18, 9>>)>>)>>]

\* resolvePreset: the preset's rules with the custom rules after them.
Preset(name) ==
    CASE name = "permissive" ->
             [defaultPolicy |-> "allow", enforce |-> FALSE, rules |-> <<>>]
      [] name = "safety" ->
             [defaultPolicy |-> "allow", enforce |-> TRUE,
              rules |-> <<RuleDestructive, RuleSecret, RuleNetwork>>]
      [] name = "strict" ->
             [defaultPolicy |-> "deny", enforce |-> TRUE, rules |-> <<RuleReadTools>>]
      [] name = "audit-only" ->
             [defaultPolicy |-> "allow", enforce |-> FALSE,
              rules |-> <<RuleDestructive, RuleSecret, RuleNetwork>>]

resolveConfig(name, customRules) ==
    [Preset(name) EXCEPT !.rules = @ \o customRules]

Configs ==
    {resolveConfig("safety", <<>>), resolveConfig("audit-only", <<>>),
     resolveConfig("strict", <<>>)}

\* A configuration whose only rule is the rate-limited one.
RateConfig == [resolveConfig("permissive", <<RuleRate>>) EXCEPT !.enforce = TRUE]

\* new Date(now).getHours() and getDay(): the clock starts at 17:00 on a Monday
\* and a tick is an hour.
getHours(t) == (17 + t) % 24
getDay(t) == (1 + ((17 + t) \div 24)) % 7

(***************************************************************************)
(* The governance facade: the two hooks the host calls around a tool call. *)
(***************************************************************************)
NoStash == <<>>

NewSession == [actionIndex |-> 0, lastR6Id |-> NoR6Id,
               toolCounts |-> <<>>, categoryCounts |-> <<>>]

\* counts[k] = (counts[k] ?? 0) + 1 over a list of <<key, count>> entries.
bump(counts, k) ==
    IF \E j \in DOMAIN counts : counts[j][1] = k
        THEN [j \in DOMAIN counts |->
                 IF counts[j][1] = k THEN <<k, counts[j][2] + 1>> ELSE counts[j]]
        ELSE Append(counts, <<k, 1>>)

\* Pre-call: classify, evaluate, stash, hand the verdict to the host.
PreCall(call) ==
    LET target == extractTarget(call.toolName, call.params)
        category == classifyToolWithTarget(call.toolName, target)
        evaluation == evaluate(limiter, [toolName |-> call.toolName, category |-> category,
                                         target |-> target,
                                         hour |-> getHours(now), day |-> getDay(now)])
    IN  /\ pc = "idle"
        /\ limiter' = evaluation.limiter
        /\ stash' = [call |-> call, category |-> category, at |-> now,
                     evaluation |-> [decision |-> evaluation.decision,
                                     matchedRule |-> evaluation.matchedRule,
                                     enforced |-> evaluation.enforced,
                                     constraints |-> evaluation.constraints,
                                     under |-> evaluation.under]]
        /\ pc' = "gated"
        /\ ret' = [op |-> "preCall", raised |-> FALSE, value |-> gateVerdict(evaluation)]
        /\ UNCHANGED <<chainVars, session, fixedVars, lastR6, postCalls, admitLog, now>>

\* The R6 request of the stashed call, with the stashed constraints.
postCallR6(uuid8) ==
    LET r6 == createR6Request(SessionId, NoAgent, stash.call.toolName, stash.call.params,
                              session.actionIndex, session.lastR6Id, "standard",
                              <<"policy", config.defaultPolicy, config.enforce>>, uuid8)
    IN  [r6 EXCEPT !.rules.constraints = stash.evaluation.constraints]

\* The result of the stashed call: blocked if pre-call denied it.
postCallResult(outcome) ==
    IF stash.evaluation.decision = "deny" /\ stash.evaluation.enforced
        THEN <<Def("status", "blocked")>>
        ELSE <<Def("status", outcome)>>

RECURSIVE stamped(_, _)
stamped(keys, t) ==
    IF keys = <<>> THEN <<>> ELSE <<<<keys[1], t>>>> \o stamped(Tail(keys), t)

\* Post-call when the record is appended.
PostCall(outcome, uuid8) ==
    LET r6 == postCallR6(uuid8) IN
    /\ pc = "gated"
    /\ recordAppends(r6, postCallResult(outcome))
    /\ limiter' = limiterRecordAll(limiter, stash.evaluation.under)
    /\ session' = [actionIndex |-> session.actionIndex + 1,
                   lastR6Id |-> r6.id,
                   toolCounts |-> bump(session.toolCounts, r6.request.toolName),
                   categoryCounts |-> bump(session.categoryCounts, r6.request.category)]
    /\ lastR6' = r6
    /\ postCalls' = Append(postCalls, [toolName |-> stash.call.toolName,
                                       gate |-> gateVerdict(stash.evaluation),
                                       evaluation |-> stash.evaluation])
    /\ admitLog' = admitLog \o stamped(stash.evaluation.under, now)
    /\ stash' = NoStash
    /\ pc' = "idle"
    /\ UNCHANGED <<fixedVars, now>>

\* Post-call when the append fails: the exception of record passes through.
PostCallRaises(outcome, uuid8) ==
    /\ pc = "gated"
    /\ recordRaises(postCallR6(uuid8), postCallResult(outcome))
    /\ stash' = NoStash
    /\ pc' = "idle"
    /\ UNCHANGED <<limiter, session, fixedVars, lastR6, postCalls, admitLog, now>>

Tick(limit) ==
    /\ now < limit
    /\ now' = now + 1
    /\ UNCHANGED <<chainVars, hookVars, fixedVars, ret>>

NoRet == [op |-> "none", raised |-> FALSE, value |-> <<>>]
NoLimiter == [isPersistent |-> TRUE, db |-> <<>>, memoryFallback |-> <<>>]
\* The second session before its first record: no file, the field initialisers
\* of audit.ts 78-79.
NoPeer == [log |-> <<>>, prevHash |-> Genesis, recordCount |-> 0]
\* An EventStream constructed with default options over an empty directory
\* (part_001 225-246): minSeverity info, no callbacks, no files.
NoStream == [minSeverity |-> "info", callbacks |-> <<>>, dir |-> {}, stderr |-> 0, emits |-> 0]
\* A ModelRuntime after its constructor (part_000 62-66): unloaded, nothing
\* held, no load in progress.  null is the empty tuple.
NoRuntime == [status |-> "unloaded", metadata |-> <<>>, llamaContext |-> <<>>,
             modelHash |-> <<>>, loads |-> <<>>]

InitWith(configs, limiters, signings) ==
    /\ log = <<>>
    /\ prevHash = Genesis
    /\ recordCount = 0
    /\ signing \in signings
    /\ tampered = 0
    /\ limiter \in limiters
    /\ session = NewSession
    /\ config \in configs
    /\ pc = "idle"
    /\ stash = NoStash
    /\ lastR6 = <<>>
    /\ postCalls = <<>>
    /\ admitLog = <<>>
    /\ peer = NoPeer
    /\ calls = <<>>
    /\ stream = NoStream
    /\ runtime = NoRuntime
    /\ now = 0
    /\ ret = NoRet

\* A session under one of the presets.
Init == InitWith(Configs, {NoLimiter}, {SessionKey})

Next ==
    \/ \E call \in {CallRm, CallRead} : Len(log) < MaxRecords /\ PreCall(call)
    \/ \E outcome \in {"success", "error"}, uuid8 \in UUIDs : PostCall(outcome, uuid8)
    \/ \E uuid8 \in UUIDs : PostCallRaises("success", uuid8)
    \/ Tick(MaxTime)

Spec == Init /\ [][Next]_vars

\* A session under the rate-limited rule, over either backend of the limiter.
InitRate ==
    InitWith({RateConfig}, {[NoLimiter EXCEPT !.isPersistent = b] : b \in BOOLEAN},
             {SessionKey})

NextRate ==
    \/ \E call \in {CallRm, CallRead} : Len(log) < MaxRateCalls /\ PreCall(call)
    \/ \E uuid8 \in UUIDs : PostCall("success", uuid8)
    \/ \E uuid8 \in UUIDs : PostCallRaises("success", uuid8)
    \/ Tick(MaxRateTime)

SpecRate == InitRate /\ [][NextRate]_vars

(***************************************************************************)
(* The audit chain on its own: a caller that holds the AuditChain of a     *)
(* session and calls record and verify directly, and a process restart     *)
(* that builds a new AuditChain over the same file.                        *)
(***************************************************************************)
\* The R6 requests handed to record.
R6Samples ==
    {createR6Request(SessionId, NoAgent, call.toolName, call.params, 0, NoR6Id,
                     "standard", <<"policy", "allow", TRUE>>, uuid8) :
        call \in {CallRm, CallTodo}, uuid8 \in UUIDs}

ResultSamples == {<<Def("status", "success"), Undef("outputHash")>>,
                  <<Def("status", "blocked")>>}

SessionKeys == <<<<KeyId(SessionKey), PublicKeyHex(SessionKey)>>>>
WrongKeys == <<<<KeyId(SessionKey), PublicKeyHex(OtherKey)>>>>
\* A key map that has no entry for the session's key id.
OtherKeys == <<<<KeyId(OtherKey), PublicKeyHex(OtherKey)>>>>

Record(r6, result) ==
    /\ recordAppends(r6, result)
    /\ UNCHANGED <<hookVars, fixedVars, now>>

RecordRaises(r6, result) ==
    /\ recordRaises(r6, result)
    /\ UNCHANGED <<hookVars, fixedVars, now>>

Verify(publicKeys) ==
    /\ verify(publicKeys)
    /\ UNCHANGED <<hookVars, fixedVars, now>>

Restart ==
    /\ loadExisting(signing)
    /\ UNCHANGED <<hookVars, fixedVars, now>>

InitChain == InitWith({resolveConfig("permissive", <<>>)}, {NoLimiter},
                      {NoSigning, SessionKey})

NextChain ==
    \/ \E r6 \in R6Samples, result \in ResultSamples :
           Len(log) < MaxRecords /\ Record(r6, result)
    \/ \E r6 \in R6Samples, result \in ResultSamples : RecordRaises(r6, result)
    \/ \E publicKeys \in {<<>>, SessionKeys, WrongKeys} : Verify(publicKeys)
    \/ Restart

SpecChain == InitChain /\ [][NextChain]_vars

(***************************************************************************)
(* Someone edits one byte of one line of the session's file; the chain     *)
(* object is not involved.  Afterwards the file is only verified.          *)
(***************************************************************************)
ReplaceField(obj, k, v) ==
    [j \in DOMAIN obj |-> IF obj[j][1] = k THEN Def(k, v) ELSE obj[j]]

RenameField(obj, k, k2) ==
    [j \in DOMAIN obj |-> IF obj[j][1] = k THEN Def(k2, obj[j][2]) ELSE obj[j]]

\* The kinds of one-byte edit: a byte of the tool name, of prevRecordHash, of
\* the signature's hex, of the signingKeyId, of the key "signature" itself, or
\* a byte of the line's punctuation.
TamperKinds == {"tool", "prevRecordHash", "signature", "signingKeyId", "signatureKey",
                "syntax"}

TamperedLine(line, kind) ==
    CASE kind = "tool" ->
             [line EXCEPT !.doc = ReplaceField(@, "tool", "tampered")]
      [] kind = "prevRecordHash" ->
             [line EXCEPT !.doc = ReplaceField(@, "provenance",
                 ReplaceField(Get(line.doc, "provenance"), "prevRecordHash",
                              Sha16([doc |-> <<>>, sp |-> "tampered"])))]
      [] kind = "signature" ->
             [line EXCEPT !.doc = ReplaceField(@, "signature",
                                               [by |-> "tampered",
                                                over |-> [doc |-> <<>>, sp |-> "tampered"]])]
      [] kind = "signingKeyId" ->
             [line EXCEPT !.doc = ReplaceField(@, "signingKeyId", <<"keyId", "tampered">>)]
      [] kind = "signatureKey" ->
             [line EXCEPT !.doc = RenameField(@, "signature", "signaturf")]
      [] kind = "syntax" -> [line EXCEPT !.sp = "broken"]

Tamper(i, kind) ==
    /\ tampered = 0
    /\ i \in DOMAIN log
    /\ kind \in {"signature", "signingKeyId", "signatureKey"} => HasKey(log[i].doc, "signature")
    /\ log' = [log EXCEPT ![i] = TamperedLine(@, kind)]
    /\ tampered' = i
    /\ ret' = [op |-> "tamper", raised |-> FALSE, value |-> <<i, kind>>]
    /\ UNCHANGED <<prevHash, recordCount, signing, hookVars, config, peer, calls, stream, runtime, now>>

NextTamper ==
    \/ tampered = 0 /\ NextChain
    \/ \E i \in 1..MaxRecords, kind \in TamperKinds : Tamper(i, kind)
    \/ \E publicKeys \in {<<>>, SessionKeys} : tampered # 0 /\ Verify(publicKeys)

SpecTamper == InitChain /\ [][NextTamper]_vars

(***************************************************************************)
(* Properties of the audit chain.                                          *)
(***************************************************************************)
prevRecordHashOf(line) == Get(Get(line.doc, "provenance"), "prevRecordHash")

C2_VerifyAfterAppend ==
    (ret.op = "verify" /\ signing = SessionKey) =>
        (ret.keys = SessionKeys =>
            ret.value = [valid |-> TRUE,
                         recordCount |-> Len(log),
                         errors |-> <<>>,
                         signatureStats |-> [signed |-> Len(log), verified |-> Len(log),
                                             unverified |-> 0, invalid |-> 0]])

C2_Witness ==
    /\ ret.op = "verify" /\ signing = SessionKey
    /\ ret.keys = SessionKeys
    /\ Len(log) >= 2
    /\ ret.value.signatureStats.verified = Len(log)

\* C3 (tamper detection), as claimed: after a one-byte edit of any line, verify
\* with the session's key reports valid = false, with a broken link or an
\* invalid signature at the edited record.
C3_TamperDetected ==
    (tampered # 0 /\ ret.op = "verify" /\ signing = SessionKey) =>
        (ret.keys = SessionKeys =>
            /\ ~ret.value.valid
            /\ \E e \in DOMAIN ret.value.errors :
                  /\ ret.value.errors[e][1] = tampered - 1
                  /\ ret.value.errors[e][2] \in {"hash mismatch", "invalid signature"})

actionIndexOf(line) == Get(Get(line.doc, "provenance"), "actionIndex")
statusOf(line) == Get(Get(line.doc, "result"), "status")

\* C4 (action-index denseness): the i-th record of the session's log, counted
\* from 0, has provenance.actionIndex = i, after any sequence of post-calls,
\* failed ones included.
C4_ActionIndexDense ==
    \A i \in DOMAIN log : actionIndexOf(log[i]) = i - 1

C4_Witness ==
    /\ Len(log) = MaxRecords
    /\ session.actionIndex = MaxRecords
    /\ actionIndexOf(log[MaxRecords]) = MaxRecords - 1

\* C5 (one record per post-call): the log has as many records as post-calls
\* have returned, and the i-th record's status is blocked when the i-th call
\* was denied at pre-call and success or error otherwise.
C5_OneRecordPerPostCall ==
    /\ Len(log) = Len(postCalls)
    /\ \A i \in DOMAIN postCalls :
          IF postCalls[i].gate.block
              THEN statusOf(log[i]) = "blocked"
              ELSE statusOf(log[i]) \in {"success", "error"}

C5_Witness ==
    /\ Len(postCalls) >= 2
    /\ \E i, j \in DOMAIN postCalls :
          postCalls[i].gate.block /\ statusOf(log[j]) = "error"

\* C8 (enforcement flag): an evaluation's enforced is config.enforce or
\* decision # deny; a deny that is not enforced reaches the host as allow and
\* does not block, the evaluation still saying deny; an enforced deny blocks.
C8_EnforcementFlag ==
    ret.op = "preCall" =>
        LET evaluation == stash.evaluation IN
        /\ evaluation.enforced = (config.enforce \/ evaluation.decision # "deny")
        /\ (evaluation.decision = "deny" /\ ~config.enforce) =>
               (ret.value.decision = "allow" /\ ~ret.value.block)
        /\ (evaluation.decision = "deny" /\ config.enforce) => ret.value.block
        /\ evaluation.decision # "deny" =>
               (ret.value.decision = evaluation.decision /\ ~ret.value.block)

C8_Witness ==
    /\ ret.op = "preCall"
    /\ stash.evaluation.decision = "deny"
    /\ ~config.enforce
    /\ ret.value.decision = "allow"

\* C9 (policy binding), as claimed: the record persisted for a call that a
\* rule matched carries constraints, among them the matched rule's id.
C9_RecordCarriesConstraints ==
    \A i \in DOMAIN postCalls :
        postCalls[i].evaluation.matchedRule # 0 =>
            /\ HasKey(log[i].doc, "constraints")
            /\ \E j \in DOMAIN Get(log[i].doc, "constraints") :
                  Get(log[i].doc, "constraints")[j] =
                      <<"ruleId", config.rules[postCalls[i].evaluation.matchedRule].id>>

\* C9 as the code has it: the R6 request built at post-call carries the
\* stashed evaluation's constraints, the matched rule's id among them; the
\* record persisted for the call names that request in r6RequestId and has
\* no constraints of its own.
C9_RequestCarriesConstraints ==
    (ret.op = "record" /\ ~ret.raised) =>
        LET evaluation == postCalls[Len(postCalls)].evaluation
            line == log[Len(log)]
        IN  /\ lastR6.rules.constraints = evaluation.constraints
            /\ evaluation.matchedRule # 0 =>
                  \E j \in DOMAIN lastR6.rules.constraints :
                      lastR6.rules.constraints[j] =
                          <<"ruleId", config.rules[evaluation.matchedRule].id>>
            /\ Get(line.doc, "r6RequestId") = lastR6.id
            /\ ~HasKey(line.doc, "constraints")

C9_Witness ==
    /\ ret.op = "record" /\ ~ret.raised
    /\ postCalls[Len(postCalls)].evaluation.matchedRule # 0
    /\ ~postCalls[Len(postCalls)].gate.block
    /\ postCalls[Len(postCalls)].evaluation.decision = "deny"

\* C10 (rate-limit scenario): under the rule that denies Bash beyond maxCount
\* calls per windowMs, a Bash call is denied at pre-call, with that rule's id,
\* exactly when maxCount admitted Bash calls were recorded less than windowMs
\* before it; otherwise it is allowed.  So the first maxCount calls in a window
\* pass, the next is denied, and a call passes again once the oldest admitted
\* one is windowMs old.
RateLimitOf(rule) == Get(rule.match, "rateLimit")

admittedWithin(key, windowMs, at) ==
    Cardinality({j \in DOMAIN admitLog :
                    admitLog[j][1] = key /\ admitLog[j][2] > at - windowMs})

RuleWarnShell ==
    [id |-> "warn-shell", priority |-> 1, decision |-> "warn",
     match |-> <<Def("tools", <<"Bash">>)>>]

RulePool == <<RuleDestructive, RuleWarnShell, RuleSecret, RuleReadTools, RuleOffHours,
              RuleRate>>

RuleLists ==
    {<<>>} \cup {<<RulePool[a]>> : a \in DOMAIN RulePool}
           \cup {<<RulePool[p[1]], RulePool[p[2]]>> :
                     p \in {q \in (DOMAIN RulePool) \X (DOMAIN RulePool) : q[1] # q[2]}}

EvalConfigs ==
    {[defaultPolicy |-> d, enforce |-> TRUE, rules |-> rules] :
        d \in {"allow", "deny"}, rules \in RuleLists}

evaluateInput(call) ==
    LET target == extractTarget(call.toolName, call.params)
    IN  [toolName |-> call.toolName,
         category |-> classifyToolWithTarget(call.toolName, target),
         target |-> target, hour |-> getHours(now), day |-> getDay(now)]

Evaluate(call) ==
    LET evaluation == evaluate(limiter, evaluateInput(call)) IN
    /\ limiter' = evaluation.limiter
    /\ ret' = [op |-> "evaluate", raised |-> FALSE, call |-> evaluateInput(call),
               at |-> now, limiter |-> limiter,
               value |-> [decision |-> evaluation.decision,
                          matchedRule |-> evaluation.matchedRule,
                          enforced |-> evaluation.enforced,
                          constraints |-> evaluation.constraints]]
    /\ UNCHANGED <<chainVars, session, pc, stash, lastR6, postCalls, admitLog, fixedVars, now>>

\* The facade records an admitted Bash call under the rate rule's key.
RecordAdmitted ==
    LET key == rateKey(RuleRate, "Bash", "command") IN
    /\ check(limiter, key, RateLimitOf(RuleRate).maxCount,
             RateLimitOf(RuleRate).windowMs).result.allowed
    /\ limiter' = limiterRecord(limiter, key)
    /\ admitLog' = Append(admitLog, <<key, now>>)
    /\ ret' = NoRet
    /\ UNCHANGED <<chainVars, session, pc, stash, lastR6, postCalls, fixedVars, now>>

InitEval == InitWith(EvalConfigs, {NoLimiter}, {SessionKey})

NextEval ==
    \/ \E call \in {CallRm, CallEnv, CallRead} : Evaluate(call)
    \/ RecordAdmitted
    \/ Tick(MaxTime)

SpecEval == InitEval /\ [][NextEval]_vars

\* The events the limiter L holds for key that are younger than cutoff.
eventsAfter(L, key, cutoff) ==
    IF L.isPersistent
        THEN Cardinality({j \in DOMAIN L.db :
                             L.db[j].key = key /\ L.db[j].timestamp > cutoff})
    ELSE IF key \in DOMAIN L.memoryFallback
        THEN Cardinality({j \in DOMAIN L.memoryFallback[key] :
                             L.memoryFallback[key][j] > cutoff})
    ELSE 0

\* All the clauses of rule i of the configuration hold for the evaluated call.
clausesHold(i) ==
    LET match == config.rules[i].match
        call == ret.call
    IN  /\ matchesRule(call.toolName, call.category, call.target, match)
        /\ HasKey(match, "timeWindow") =>
               matchesTimeWindow(Get(match, "timeWindow"), call.hour, call.day)
        /\ HasKey(match, "rateLimit") =>
               eventsAfter(ret.limiter,
                           rateKey(config.rules[i], call.toolName, call.category),
                           ret.at - Get(match, "rateLimit").windowMs)
                   >= Get(match, "rateLimit").maxCount

\* Rule i comes before rule j: lower priority number, or equal and listed first.
comesBefore(i, j) ==
    \/ config.rules[i].priority < config.rules[j].priority
    \/ config.rules[i].priority = config.rules[j].priority /\ i <= j

\* C7 (priority determinism): evaluate returns the decision of the rule that
\* comes first, by priority number and then by position in the list, among the
\* rules whose static, time-window and rate-limit clauses all hold; when none
\* holds it returns the default policy and no matched rule.
C7_PriorityDeterminism ==
    ret.op = "evaluate" =>
        LET holding == {i \in DOMAIN config.rules : clausesHold(i)} IN
        IF holding = {}
            THEN ret.value.decision = config.defaultPolicy /\ ret.value.matchedRule = 0
            ELSE /\ ret.value.matchedRule \in holding
                 /\ \A j \in holding : comesBefore(ret.value.matchedRule, j)
                 /\ ret.value.decision = config.rules[ret.value.matchedRule].decision

\* Two rules of equal priority and different decisions hold; the first listed wins.
C7_Witness ==
    /\ ret.op = "evaluate"
    /\ ret.value.matchedRule = 1
    /\ Len(config.rules) = 2
    /\ clausesHold(2)
    /\ config.rules[1].priority = config.rules[2].priority
    /\ config.rules[1].decision # config.rules[2].decision

(***************************************************************************)
(* The rate limiter on its own: a caller that holds a PersistentRateLimiter*)
(* over either backend and calls check and record directly.                *)
(***************************************************************************)
RateKeys == {<<"ratelimit", "limit-bash", "tool", "Bash">>,
             <<"ratelimit", "limit-net", "category", "network">>}

LimiterCheck(key, maxCount, windowMs) ==
    LET checked == check(limiter, key, maxCount, windowMs) IN
    /\ limiter' = checked.limiter
    /\ ret' = [op |-> "check", raised |-> FALSE, value |-> checked.result,
               key |-> key, maxCount |-> maxCount, windowMs |-> windowMs, at |-> now]
    /\ UNCHANGED <<chainVars, session, pc, stash, lastR6, postCalls, admitLog, fixedVars, now>>

LimiterRecord(key) ==
    /\ limiter' = limiterRecord(limiter, key)
    /\ admitLog' = Append(admitLog, <<key, now>>)
    /\ ret' = [op |-> "limiterRecord", raised |-> FALSE, value |-> <<>>, key |-> key]
    /\ UNCHANGED <<chainVars, session, pc, stash, lastR6, postCalls, fixedVars, now>>

InitLimiter ==
    InitWith({resolveConfig("permissive", <<>>)},
             {[NoLimiter EXCEPT !.isPersistent = b] : b \in BOOLEAN}, {SessionKey})

NextLimiter ==
    \/ \E key \in RateKeys, maxCount \in 0..2, windowMs \in 1..2 :
           LimiterCheck(key, maxCount, windowMs)
    \/ \E key \in RateKeys : Len(admitLog) < MaxEvents /\ LimiterRecord(key)
    \/ Tick(MaxRateTime)

SpecLimiter == InitLimiter /\ [][NextLimiter]_vars

\* C11 (check semantics), as claimed: check returns current = the number of
\* events recorded for the key that are younger than windowMs (an event exactly
\* windowMs old does not count), limit = maxCount and allowed exactly when
\* current < maxCount, over either backend.
C11_CheckSemantics ==
    ret.op = "check" =>
        /\ ret.value.current = admittedWithin(ret.key, ret.windowMs, ret.at)
        /\ ret.value.limit = ret.maxCount
        /\ ret.value.allowed = (ret.value.current < ret.maxCount)

(***************************************************************************)
(* Pure functions: the input is drawn at the start and the function is     *)
(* applied to it once.                                                     *)
(***************************************************************************)
InitInput(inputs) ==
    /\ log = <<>>
    /\ prevHash = Genesis
    /\ recordCount = 0
    /\ signing = NoSigning
    /\ tampered = 0
    /\ limiter = NoLimiter
    /\ session = NewSession
    /\ config = resolveConfig("permissive", <<>>)
    /\ pc = "idle"
    /\ stash = NoStash
    /\ lastR6 = <<>>
    /\ postCalls = <<>>
    /\ admitLog = <<>>
    /\ peer = NoPeer
    /\ calls = <<>>
    /\ stream = NoStream
    /\ runtime = NoRuntime
    /\ now = 0
    /\ ret \in {[op |-> "input", raised |-> FALSE, value |-> x] : x \in inputs}

\* The operation leaves everything but ret alone.
Returns(op, input, value) ==
    /\ ret' = [op |-> op, raised |-> FALSE, input |-> input, value |-> value]
    /\ UNCHANGED <<chainVars, hookVars, fixedVars, now>>

ToolNames == {"Read", "Grep", "Write", "Edit", "Bash", "WebFetch", "Task", "TodoWrite",
              "mcp__db__query", "constructor"}

TargetSamples ==
    {NoTarget, <<>>,
     <<"/", "u", "/", ".", "e", "n", "v">>,
     <<"/", "s", "/", "m", ".", "c">>,
     <<"/", ".", "E", "N", "V">>,
     <<".", "e", "n", "v", ".", "b">>,
     <<".", "e", "n", "v", "/", "b">>,
     <<".", "e", "n", "v", "s">>,
     <<"a", "/", ".", "s", "s", "h", "/", "i", "d", "_", "r">>,
     <<"s", "e", "c", "r", "e", "t", ".", "y">>,
     <<"a", "p", "i", "k", "e", "y">>,
     <<"c", "u", "r", "l", " ", "-", "d", " ", "@", ".", "e", "n", "v">>}

Classify ==
    /\ ret.op = "input"
    /\ Returns("classify", ret.value,
               classifyToolWithTarget(ret.value.toolName, ret.value.target))

InitClassify ==
    InitInput({[toolName |-> t, target |-> g] : t \in ToolNames, g \in TargetSamples})

NextClassify == Classify

SpecClassify == InitClassify /\ [][NextClassify]_vars

\* The category the table of tools gives a tool name, unknown when the table
\* has no entry for it.
tableCategory(toolName) ==
    CASE toolName \in {"Read", "Glob", "Grep"} -> "file_read"
      [] toolName \in {"Write", "Edit", "NotebookEdit"} -> "file_write"
      [] toolName = "Bash" -> "command"
      [] toolName \in {"WebFetch", "WebSearch"} -> "network"
      [] toolName = "Task" -> "delegation"
      [] toolName = "TodoWrite" -> "state"
      [] OTHER -> "unknown"

\* C12 (credential escalation), as claimed: classifyToolWithTarget returns
\* credential_access exactly when the tool's table category is file_read or
\* file_write and the target matches a credential pattern, and the table
\* category, unknown for a tool the table does not list, in every other case.
C12_CredentialEscalation ==
    ret.op = "classify" =>
        ret.value =
            IF /\ tableCategory(ret.input.toolName) \in {"file_read", "file_write"}
               /\ isCredentialTarget(ret.input.target)
                THEN "credential_access"
                ELSE tableCategory(ret.input.toolName)


(***************************************************************************)
(* The glob matcher on its own: globToRegex(pattern).test(s) for every     *)
(* pattern and string over small alphabets.                                *)
(***************************************************************************)
MaxPatternLen == 3
MaxStringLen == 3

SeqsUpTo(alphabet, n) == UNION {[1..k -> alphabet] : k \in 0..n}

GlobPatterns == SeqsUpTo({"a", "/", "*", "?", "."}, MaxPatternLen)
GlobStrings == SeqsUpTo({"a", "/", ".", "\n"}, MaxStringLen)

GlobTest ==
    /\ ret.op = "input"
    /\ Returns("globTest", ret.value,
               TestAnchored(globToRegex(ret.value.pattern), ret.value.s))

InitGlob == InitInput({[pattern |-> p, s |-> s] : p \in GlobPatterns, s \in GlobStrings})

NextGlob == GlobTest

SpecGlob == InitGlob /\ [][NextGlob]_vars

\* Whether pattern p from position i matches the whole of s from position j
\* under the stated meaning of the wildcards: ? is one character other than
\* /, * a possibly empty run of characters other than /, ** any run of
\* characters (with one directly following / absorbed), anything else itself.
RECURSIVE wholeStringMatch(_, _, _, _)
wholeStringMatch(p, s, i, j) ==
    IF i > Len(p) THEN j > Len(s)
    ELSE IF p[i] = "*" /\ i < Len(p) /\ p[i + 1] = "*"
        THEN LET rest == IF i + 2 <= Len(p) /\ p[i + 2] = "/" THEN i + 3 ELSE i + 2
             IN  \E k \in j..(Len(s) + 1) : wholeStringMatch(p, s, rest, k)
    ELSE IF p[i] = "*"
        THEN \E k \in j..(Len(s) + 1) :
                /\ \A m \in j..(k - 1) : s[m] # "/"
                /\ wholeStringMatch(p, s, i + 1, k)
    ELSE IF p[i] = "?"
        THEN j <= Len(s) /\ s[j] # "/" /\ wholeStringMatch(p, s, i + 1, j + 1)
    ELSE j <= Len(s) /\ s[j] = p[i] /\ wholeStringMatch(p, s, i + 1, j + 1)

\* C13 (glob anchoring), as claimed: globToRegex(p).test(s) is true exactly
\* when p matches the whole of s, with ? one non-/ character, * a possibly
\* empty run of non-/ characters, ** any run of characters including /, and
\* every other character matching itself.
C13_GlobAnchoring ==
    ret.op = "globTest" =>
        ret.value = wholeStringMatch(ret.input.pattern, ret.input.s, 1, 1)


(***************************************************************************)
(* matchers.ts: validateRegexPattern.                                      *)
(***************************************************************************)
\* Line 50: the longest pattern accepted.
MaxPatternChars == 500

\* Line 23: /\([^)]*[*+]\)[*+?]|\([^)]*[*+?]\)\{/.test(pattern).  j is the
\* position of the quantifier inside the parenthesis.
nestedQuantifier(p) ==
    \E i \in DOMAIN p :
        /\ p[i] = "("
        /\ \E j \in (i + 1)..(Len(p) - 2) :
               /\ \A m \in (i + 1)..(j - 1) : p[m] # ")"
               /\ p[j + 1] = ")"
               /\ \/ p[j] \in {"*", "+"} /\ p[j + 2] \in {"*", "+", "?"}
                  \/ p[j] \in {"*", "+", "?"} /\ p[j + 2] = "{"

\* The first position from i on that holds | or ), Len(p) + 1 if none.
RECURSIVE firstStop(_, _)
firstStop(p, i) ==
    IF i > Len(p) \/ p[i] \in {"|", ")"} THEN i ELSE firstStop(p, i + 1)

\* Lines 30, 33: a match of /\(([^|)]+)\|([^|)]+)\)[*+]/ that starts at i.
altMatchAt(p, i) ==
    /\ p[i] = "("
    /\ LET bar == firstStop(p, i + 1) IN
       /\ bar <= Len(p) /\ p[bar] = "|" /\ bar > i + 1
       /\ LET close == firstStop(p, bar + 1) IN
          /\ close < Len(p) /\ p[close] = ")" /\ close > bar + 1
          /\ p[close + 1] \in {"*", "+"}

\* Line 31.
overlappingAlt(p) == \E i \in DOMAIN p : altMatchAt(p, i)

\* Lines 33-35: pattern.match(...) takes the leftmost match; its two groups.
altMatch(p) ==
    LET i == CHOOSE i \in DOMAIN p :
                 altMatchAt(p, i) /\ \A k \in 1..(i - 1) : ~altMatchAt(p, k)
        bar == firstStop(p, i + 1)
        close == firstStop(p, bar + 1)
    IN  [alt1 |-> SubSeq(p, i + 1, bar - 1), alt2 |-> SubSeq(p, bar + 1, close - 1)]

\* Line 45: /\{[^}]+\}\s*\{/.test(pattern).
quantifierChain(p) ==
    \E i \in DOMAIN p :
        /\ p[i] = "{"
        /\ \E k \in (i + 2)..Len(p) :
               /\ p[k] = "}"
               /\ \A m \in (i + 1)..(k - 1) : p[m] # "}"
               /\ \E q \in (k + 1)..Len(p) :
                      p[q] = "{" /\ \A m \in (k + 1)..(q - 1) : p[m] \in WhiteSpace

\* The position of the } that closes a quantifier {n}, {n,} or {n,m} opened
\* at i, 0 when the text at i is not such a quantifier.
braceQuantifierEnd(p, i) ==
    LET closes == {k \in (i + 2)..Len(p) :
                      /\ p[k] = "}"
                      /\ p[i + 1] \in Digits
                      /\ \A m \in (i + 1)..(k - 1) : p[m] \in Digits \cup {","}
                      /\ Cardinality({m \in (i + 1)..(k - 1) : p[m] = ","}) <= 1}
    IN  IF closes = {} THEN 0 ELSE CHOOSE k \in closes : \A o \in closes : k <= o

\* Lines 55-59: whether new RegExp(pattern) compiles, for patterns of
\* literals, the dot, groups, alternation and the quantifiers * + ? {n,m}
\* (no character classes and no escapes): parentheses are balanced and a
\* quantifier follows something it can repeat.  prev is "start" where nothing
\* can be repeated, "atom" after a term, "quant" after a quantifier.
RECURSIVE compileScan(_, _, _, _)
compileScan(p, i, depth, prev) ==
    IF i > Len(p) THEN depth = 0
    ELSE LET ch == p[i] IN
         CASE ch = "(" -> compileScan(p, i + 1, depth + 1, "start")
           [] ch = ")" -> depth > 0 /\ compileScan(p, i + 1, depth - 1, "atom")
           [] ch = "|" -> compileScan(p, i + 1, depth, "start")
           [] ch \in {"*", "+"} ->
                 prev = "atom" /\ compileScan(p, i + 1, depth, "quant")
           [] ch = "?" ->
                 /\ prev \in {"atom", "quant"}
                 /\ compileScan(p, i + 1, depth, IF prev = "atom" THEN "quant" ELSE "start")
           [] ch = "{" /\ braceQuantifierEnd(p, i) # 0 ->
                 /\ prev = "atom"
                 /\ compileScan(p, braceQuantifierEnd(p, i) + 1, depth, "quant")
           [] OTHER -> compileScan(p, i + 1, depth, "atom")

Compiles(p) == compileScan(p, 1, 0, "start")

\* Lines 20-62.
validateRegexPattern(pattern) ==
    IF nestedQuantifier(pattern)
        THEN [valid |-> FALSE, reason |-> "Nested quantifiers detected (potential ReDoS)"]
    ELSE IF /\ overlappingAlt(pattern)
            /\ LET wild == {<<".", "*">>, <<".", "+">>}
               IN  altMatch(pattern).alt1 \in wild \/ altMatch(pattern).alt2 \in wild
        THEN [valid |-> FALSE,
              reason |-> "Overlapping alternations with wildcards (potential ReDoS)"]
    ELSE IF quantifierChain(pattern)
        THEN [valid |-> FALSE, reason |-> "Chained quantifiers detected (potential ReDoS)"]
    ELSE IF Len(pattern) > MaxPatternChars
        THEN [valid |-> FALSE, reason |-> "Pattern too long (max 500 characters)"]
    ELSE IF ~Compiles(pattern)
        THEN [valid |-> FALSE, reason |-> "Invalid regex"]
    ELSE [valid |-> TRUE, reason |-> ""]


\* The validator applied to every pattern of up to MaxRegexLen characters over
\* a small alphabet, and to named patterns.
MaxRegexLen == 4

RegexSamples ==
    {<<"(", ".", "*", ")", "+">>,
     <<"(", "a", "+", ")", "+">>,
     <<"(", "a", "+", ")", "*">>,
     <<"(", "a", "+", ")", "{", "2", "}">>,
     <<"(", ".", "*", "|", ".", "+", ")", "+">>,
     <<"(", "a", "|", ".", "+", ")", "*">>,
     <<"a", "{", "1", ",", "1", "0", "}", "{", "1", ",", "1", "0", "}">>,
     <<"a", "{", "1", ",", "1", "0", "}">>,
     <<"(", "a", "|", "b", ")", "+">>,
     <<"(", "a", "|", "b", ")", "+", "(", ".", "*", "|", "c", ")", "+">>,
     <<"(", ".", "*", "|", "a", "|", "b", ")", "+">>,
     <<"(", "(", "b", ")", "a", "+", ")", "+">>,
     <<"a", "{", "b", "}">>,
     [i \in 1..(MaxPatternChars + 1) |-> "a"]}

RegexPatterns == SeqsUpTo({"(", ")", "a", "+", "|"}, MaxRegexLen) \cup RegexSamples

Validate ==
    /\ ret.op = "input"
    /\ Returns("validateRegexPattern", ret.value, validateRegexPattern(ret.value))

InitValidate == InitInput(RegexPatterns)

NextValidate == Validate

SpecValidate == InitValidate /\ [][NextValidate]_vars

\* The position of the ( that the ) at k closes, 0 if it closes none.
RECURSIVE opens(_, _, _)
opens(p, k, depth) ==
    IF k < 1 THEN 0
    ELSE IF p[k] = ")" THEN opens(p, k - 1, depth + 1)
    ELSE IF p[k] = "(" THEN IF depth = 0 THEN k ELSE opens(p, k - 1, depth - 1)
    ELSE opens(p, k - 1, depth)

\* The branches of the group body p[from..to]: the pieces between the | that
\* are not inside an inner group.
RECURSIVE branches(_, _, _, _, _)
branches(p, from, to, i, depth) ==
    IF i > to THEN {SubSeq(p, from, to)}
    ELSE IF p[i] = "(" THEN branches(p, from, to, i + 1, depth + 1)
    ELSE IF p[i] = ")" THEN branches(p, from, to, i + 1, depth - 1)
    ELSE IF p[i] = "|" /\ depth = 0
        THEN {SubSeq(p, from, i - 1)} \cup branches(p, i + 1, to, i + 1, 0)
    ELSE branches(p, from, to, i + 1, depth)

\* A group that ends in a quantifier and is itself quantified, in one of the
\* forms (...*)+, (...+)+, (...+)*, (...+){...}.
hasNestedQuantifier(p) ==
    \E k \in 2..(Len(p) - 1) :
        /\ p[k] = ")" /\ opens(p, k - 1, 0) # 0
        /\ \/ p[k - 1] = "*" /\ p[k + 1] = "+"
           \/ p[k - 1] = "+" /\ p[k + 1] \in {"+", "*", "{"}

\* A group under + or * one of whose branches is .* or .+.
hasWildcardAlternation(p) ==
    \E k \in 2..(Len(p) - 1) :
        /\ p[k] = ")" /\ opens(p, k - 1, 0) # 0 /\ p[k + 1] \in {"+", "*"}
        /\ LET bs == branches(p, opens(p, k - 1, 0) + 1, k - 1, opens(p, k - 1, 0) + 1, 0)
           IN  Cardinality(bs) > 1 /\ bs \cap {<<".", "*">>, <<".", "+">>} # {}

\* A quantifier {m,n} directly followed by another {.
hasChainedQuantifier(p) ==
    \E i \in DOMAIN p :
        /\ p[i] = "{" /\ braceQuantifierEnd(p, i) # 0
        /\ braceQuantifierEnd(p, i) < Len(p) /\ p[braceQuantifierEnd(p, i) + 1] = "{"

\* C14 (ReDoS rejection), as claimed: validateRegexPattern returns invalid for
\* every pattern that contains a nested quantifier, an alternation with a .*
\* or .+ branch under + or *, a chained {m,n}{...} quantifier, more than 500
\* characters, or that does not compile.
C14_ReDoSRejection ==
    (/\ ret.op = "validateRegexPattern"
     /\ \/ Len(ret.input) > 500
        \/ hasNestedQuantifier(ret.input)
        \/ hasWildcardAlternation(ret.input)
        \/ hasChainedQuantifier(ret.input)
        \/ ~Compiles(ret.input))
        => ~ret.value.valid


(***************************************************************************)
(* matchesRule on its own, over tool calls and PolicyMatch objects with    *)
(* each criterion absent, undefined, empty or filled.                      *)
(***************************************************************************)
TargetRm == <<"r", "m", " ", "-", "r", " ", "/", "t">>
TargetA == <<"/", "a">>

ToolsChoices == {<<>>, <<Undef("tools")>>, <<Def("tools", <<>>)>>,
                 <<Def("tools", <<"Bash">>)>>, <<Def("tools", <<"Read", "Bash">>)>>}
CategoriesChoices == {<<>>, <<Def("categories", <<"command">>)>>,
                      <<Def("categories", <<"file_read", "network">>)>>}
PatternsChoices ==
    {<<>>,
     <<Def("targetPatterns", <<>>)>>,
     <<Def("targetPatterns", <<<<"r", "m", " ", "-", "*", "*">>>>)>>,
     <<Def("targetPatterns", <<<<"/", "b">>, <<"/", "?">>>>)>>,
     <<Def("targetPatterns", <<<<"r", "m">>>>), Def("targetPatternsAreRegex", TRUE)>>,
     <<Def("targetPatterns", <<<<"r", "m">>>>), Def("targetPatternsAreRegex", FALSE)>>}

PolicyMatches ==
    {t \o c \o p : t \in ToolsChoices, c \in CategoriesChoices, p \in PatternsChoices}

MatchInputs ==
    [toolName : {"Bash", "Read"}, category : {"command", "file_read"},
     target : {NoTarget, TargetRm, TargetA}, match : PolicyMatches]

MatchRule ==
    /\ ret.op = "input"
    /\ Returns("matchesRule", ret.value,
               matchesRule(ret.value.toolName, ret.value.category, ret.value.target,
                           ret.value.match))

InitMatch == InitInput(MatchInputs)

NextMatch == MatchRule

SpecMatch == InitMatch /\ [][NextMatch]_vars

\* A criterion is present when the match object holds a defined value for it.
present(match, k) == \E i \in DOMAIN match : Len(match[i]) = 2 /\ match[i][1] = k
valueOf(match, k) == match[CHOOSE i \in DOMAIN match : match[i][1] = k /\ Len(match[i]) = 2][2]

\* Whether the target matches one pattern, as a glob unless the match object
\* says its patterns are regular expressions.
patternHolds(target, pattern, match) ==
    IF present(match, "targetPatternsAreRegex") /\ valueOf(match, "targetPatternsAreRegex")
        THEN RegExpTest(pattern, target)
        ELSE TestAnchored(globToRegex(pattern), target)

\* C15 (rule matching): matchesRule returns true exactly when every criterion
\* present in match holds: the tool name is in tools, the category is in
\* categories, and the target is defined and matches at least one of
\* targetPatterns; an absent criterion does not constrain.
C15_MatchesRule ==
    ret.op = "matchesRule" =>
        LET in == ret.input
            m == in.match
        IN  ret.value =
                /\ present(m, "tools") =>
                       in.toolName \in {valueOf(m, "tools")[i] : i \in DOMAIN valueOf(m, "tools")}
                /\ present(m, "categories") =>
                       in.category \in {valueOf(m, "categories")[i] :
                                            i \in DOMAIN valueOf(m, "categories")}
                /\ present(m, "targetPatterns") =>
                       /\ in.target # NoTarget
                       /\ \E i \in DOMAIN valueOf(m, "targetPatterns") :
                              patternHolds(in.target, valueOf(m, "targetPatterns")[i], m)

\* A call that satisfies all three criteria of a match is matched.
C15_Witness ==
    /\ ret.op = "matchesRule"
    /\ ret.input.match = <<Def("tools", <<"Bash">>)>> \o <<Def("categories", <<"command">>)>> \o
           <<Def("targetPatterns", <<<<"r", "m", " ", "-", "*", "*">>>>)>>
    /\ ret.input.toolName = "Bash" /\ ret.input.category = "command"
    /\ ret.input.target = TargetRm
    /\ ret.value


(***************************************************************************)
(* A session's file that is damaged in several places: lines are edited in *)
(* file order, each at most once (tampered is the last line edited), and   *)
(* the file is then verified with no keys, the session's key, a wrong key  *)
(* for its key id, or a map without its key id.                            *)
(***************************************************************************)
RemoveField(obj, k) == SelectSeq(obj, LAMBDA f : f[1] # k)

DamageKinds == {"syntax", "prevRecordHash", "signature", "noProvenance"}

DamagedLine(line, kind) ==
    IF kind = "noProvenance"
        THEN [line EXCEPT !.doc = RemoveField(@, "provenance")]
        ELSE TamperedLine(line, kind)

Damage(i, kind) ==
    /\ i \in DOMAIN log
    /\ tampered < i
    /\ kind = "signature" => HasKey(log[i].doc, "signature")
    /\ log' = [log EXCEPT ![i] = DamagedLine(@, kind)]
    /\ tampered' = i
    /\ ret' = [op |-> "damage", raised |-> FALSE, value |-> <<i, kind>>]
    /\ UNCHANGED <<prevHash, recordCount, signing, hookVars, config, peer, calls, stream, runtime, now>>

\* The request whose records fill the file; the first record has either
\* result, the later ones succeed.
DamageR6 ==
    createR6Request(SessionId, NoAgent, CallRm.toolName, CallRm.params, 0, NoR6Id,
                    "standard", <<"policy", "allow", TRUE>>, "0a1b2c3d")

NextDamage ==
    \/ \E result \in ResultSamples :
           /\ tampered = 0 /\ Len(log) < MaxRecords
           /\ log # <<>> => Get(result, "status") = "success"
           /\ Record(DamageR6, result)
    \/ \E i \in 1..MaxRecords, kind \in DamageKinds : Damage(i, kind)
    \/ \E publicKeys \in {<<>>, SessionKeys, WrongKeys, OtherKeys} : Verify(publicKeys)

SpecDamage == InitChain /\ [][NextDamage]_vars

\* Line i (1-based) of the file is at fault under the keys supplied: it does
\* not parse, it has no provenance, its prevRecordHash is not the hash of the
\* line before it, or it carries a signature that the supplied key for its
\* key id does not verify.
offending(lines, i, publicKeys) ==
    \/ lines[i].sp = "broken"
    \/ ~\E f \in DOMAIN lines[i].doc : lines[i].doc[f][1] = "provenance"
    \/ Get(Get(lines[i].doc, "provenance"), "prevRecordHash")
           # (IF i = 1 THEN Genesis ELSE Sha16(lines[i - 1]))
    \/ /\ HasKey(lines[i].doc, "signature") /\ HasKey(lines[i].doc, "signingKeyId")
       /\ \E k \in DOMAIN publicKeys :
              /\ publicKeys[k][1] = Get(lines[i].doc, "signingKeyId")
              /\ ~verifySignature(JSONstringify(unsignedRecord(lines[i].doc)),
                                  Get(lines[i].doc, "signature"), publicKeys[k][2])

\* C16 (diagnostic verify): on a file with unparseable lines, records without
\* provenance, broken links or invalid signatures, verify does not raise, its
\* report has an error for every line at fault, recordCount is the number of
\* lines, and valid is true exactly when errors is empty.
C16_VerifyDiagnostic ==
    ret.op = "verify" =>
        /\ ~ret.raised
        /\ ret.value.recordCount = Len(log)
        /\ ret.value.valid = (ret.value.errors = <<>>)
        /\ \A i \in DOMAIN log :
               offending(log, i, ret.keys) =>
                   \E e \in DOMAIN ret.value.errors : ret.value.errors[e][1] = i - 1

\* A verified file with two damaged lines, the later of which is reported.
C16_Witness ==
    /\ ret.op = "verify"
    /\ Len(log) >= 3
    /\ log[1].sp = "broken"
    /\ offending(log, 3, ret.keys)
    /\ \E e \in DOMAIN ret.value.errors : ret.value.errors[e] = <<2, "invalid signature">>
    /\ ~ret.value.valid


signedLines(lines) ==
    {i \in DOMAIN lines :
        /\ lines[i].sp # "broken"
        /\ \E f \in DOMAIN lines[i].doc : lines[i].doc[f][1] = "provenance"
        /\ \E f \in DOMAIN lines[i].doc : lines[i].doc[f][1] = "signature"
        /\ \E f \in DOMAIN lines[i].doc : lines[i].doc[f][1] = "signingKeyId"}

\* The signed lines whose key id has an entry in the key map.
keyedLines(lines, publicKeys) ==
    {i \in signedLines(lines) :
        \E k \in DOMAIN publicKeys : publicKeys[k][1] = Get(lines[i].doc, "signingKeyId")}

\* C18 (signature statistics): in every report signed = verified + invalid +
\* unverified; a signed record whose key id is not in the supplied key map
\* (or when no map is supplied) is counted unverified and adds no error, so
\* that every error is a parse error, a broken link, or a signature that a
\* supplied key does not verify.
C18_SignatureStats ==
    ret.op = "verify" =>
        LET stats == ret.value.signatureStats
            errors == ret.value.errors
        IN  /\ stats.signed = stats.verified + stats.invalid + stats.unverified
            /\ stats.signed = Cardinality(signedLines(log))
            /\ stats.unverified = Cardinality(signedLines(log) \ keyedLines(log, ret.keys))
            /\ \A e \in DOMAIN errors :
                   /\ errors[e][2] \in {"parse error", "hash mismatch", "invalid signature"}
                   /\ errors[e][2] = "invalid signature" =>
                          errors[e][1] + 1 \in keyedLines(log, ret.keys)

\* A signed file verified with a key map that lacks the records' key id: all
\* records are unverified and the report is valid.
C18_Witness ==
    /\ ret.op = "verify"
    /\ ret.keys = OtherKeys
    /\ ret.value.signatureStats.signed >= 2
    /\ ret.value.signatureStats.unverified = ret.value.signatureStats.signed
    /\ ret.value.valid


\* The hash a record appended to the file has to carry as prevRecordHash.
headOf(lines) == IF lines = <<>> THEN Genesis ELSE Sha16(lines[Len(lines)])

SessionR6(sessionId, actionIndex) ==
    createR6Request(sessionId, NoAgent, CallRm.toolName, CallRm.params, actionIndex, NoR6Id,
                    "standard", <<"policy", "allow", TRUE>>, "0a1b2c3d")

SessionRecord(result) ==
    LET r6 == SessionR6(SessionId, recordCount) IN
    /\ recordAppends(r6, result)
    /\ calls' = Append(calls, [sessionId |-> SessionId, r6 |-> r6, result |-> result])
    /\ UNCHANGED <<hookVars, config, tampered, peer, stream, runtime, now>>

PeerRecord(result) ==
    LET r6 == SessionR6(PeerId, peer.recordCount) IN
    /\ peerRecordAppends(r6, result)
    /\ calls' = Append(calls, [sessionId |-> PeerId, r6 |-> r6, result |-> result])
    /\ UNCHANGED <<chainVars, hookVars, config, tampered, stream, runtime, now>>

\* The number of records a session writes.
MaxSessionRecords == 2

NextSessions ==
    \/ \E result \in ResultSamples : recordCount < MaxSessionRecords /\ SessionRecord(result)
    \/ \E result \in ResultSamples :
           peer.recordCount < MaxSessionRecords /\ PeerRecord(result)

SpecSessions == InitChain /\ [][NextSessions]_vars

\* The calls of one session, in the order it made them.
callsOf(sessionId) == SelectSeq(calls, LAMBDA c : c.sessionId = sessionId)

\* The file a session writes when it makes the calls cs and no other session
\* exists.
RECURSIVE aloneLog(_, _, _)
aloneLog(sessionId, sg, cs) ==
    IF cs = <<>> THEN <<>>
    ELSE LET before == aloneLog(sessionId, sg, SubSeq(cs, 1, Len(cs) - 1))
             c == cs[Len(cs)]
         IN  Append(before,
                    JSONstringify(signRecord(
                        buildRecordOf(sessionId, c.r6, c.result, headOf(before)), sg)))

\* Every line's prevRecordHash is the hash of the line before it.
chainValid(lines) ==
    \A i \in DOMAIN lines :
        prevRecordHashOf(lines[i]) = (IF i = 1 THEN Genesis ELSE Sha16(lines[i - 1]))

StreamFile == <<"events.jsonl">>
Rotated == StreamFile \o <<".1">>

\* MAX_FILE_SIZE_MB (line 229) and the bytes of one MB (line 276).
MAX_FILE_SIZE_MB == 100
BytesPerMb == 1024 * 1024

Exists(dir, name) == \E f \in dir : f.name = name
FileOf(dir, name) == CHOOSE f \in dir : f.name = name
Remove(dir, name) == {f \in dir : f.name # name}

\* SEVERITY_ORDER (lines 203-209); a severity the table lacks has no number.
SeverityNames == {"debug", "info", "warn", "alert", "error"}
SEVERITY_ORDER(severity) ==
    CASE severity = "debug" -> 0
      [] severity = "info" -> 1
      [] severity = "warn" -> 2
      [] severity = "alert" -> 3
      [] severity = "error" -> 4

\* A shouldEmit that passes only events above the minimum.
shouldEmitAbove(severity, minSeverity) ==
    /\ severity \in SeverityNames /\ minSeverity \in SeverityNames
    /\ SEVERITY_ORDER(severity) > SEVERITY_ORDER(minSeverity)

\* Lines 268-270.  A comparison with undefined is false.
shouldEmit(severity, minSeverity) ==
    /\ severity \in SeverityNames /\ minSeverity \in SeverityNames
    /\ SEVERITY_ORDER(severity) >= SEVERITY_ORDER(minSeverity)

\* A rotation that keeps every backup, numbering them.
checkRotationNumbered(dir, fault) ==
    IF Exists(dir, StreamFile) /\ fault = "none"
       /\ FileOf(dir, StreamFile).size >= MAX_FILE_SIZE_MB * BytesPerMb
        THEN Remove(dir, StreamFile) \cup
             {[FileOf(dir, StreamFile) EXCEPT
                  !.name = StreamFile \o <<".", Cardinality(dir)>>]}
        ELSE dir

\* Lines 272-288.  fault names the call that throws, if any: "stat", "unlink",
\* "rename" or "none"; the catch of line 285 ends the rotation where it is.
checkRotation(dir, fault) ==
    IF ~Exists(dir, StreamFile) \/ fault = "stat" THEN dir
    ELSE IF FileOf(dir, StreamFile).size < MAX_FILE_SIZE_MB * BytesPerMb THEN dir
    ELSE IF Exists(dir, Rotated) /\ fault = "unlink" THEN dir
    ELSE IF fault = "rename" THEN Remove(dir, Rotated)
    ELSE Remove(Remove(dir, Rotated), StreamFile) \cup
         {[FileOf(dir, StreamFile) EXCEPT !.name = Rotated]}

\* Lines 290-302: the event without its undefined fields and without an empty
\* metadata object, serialised.
serializeEvent(event) ==
    JSONstringify(SelectSeq(event,
        LAMBDA f : IsDefined(f) /\ ~(f[1] = "metadata" /\ f[2] = <<>>)))

\* appendFileSync(name, line): the file is created when it does not exist.
AppendLine(dir, name, line, bytes) ==
    IF Exists(dir, name)
        THEN Remove(dir, name) \cup
             {[FileOf(dir, name) EXCEPT !.size = @ + bytes, !.lines = Append(@, line)]}
        ELSE dir \cup {[name |-> name, size |-> bytes, lines |-> <<line>>]}

\* A writeEvent without the try of line 328.
writeEventUnguarded(st, event, bytes, io) ==
    LET rotated == checkRotation(st.dir, io.rotation) IN
    IF io.append = "ok"
        THEN [stream |-> [st EXCEPT !.dir = AppendLine(rotated, StreamFile,
                                                        serializeEvent(event), bytes)],
              raised |-> FALSE]
        ELSE [stream |-> [st EXCEPT !.dir = rotated], raised |-> TRUE]

\* Lines 326-333.  io.rotation is the fault of the rotation; io.append is
\* "ok", "appendFails" (appendFileSync throws) or "serializeFails"
\* (JSON.stringify throws); bytes is the length of the line with its newline.
writeEvent(st, event, bytes, io) ==
    LET rotated == checkRotation(st.dir, io.rotation) IN
    IF io.append = "ok"
        THEN [stream |-> [st EXCEPT !.dir = AppendLine(rotated, StreamFile,
                                                        serializeEvent(event), bytes)],
              raised |-> FALSE]
        ELSE [stream |-> [st EXCEPT !.dir = rotated, !.stderr = @ + 1], raised |-> FALSE]

\* The callbacks up to and including the first that throws.
firstThrow(callbacks) ==
    IF \E i \in DOMAIN callbacks : callbacks[i] = "throws"
        THEN CHOOSE i \in DOMAIN callbacks :
                 callbacks[i] = "throws" /\ \A k \in 1..(i - 1) : callbacks[k] # "throws"
        ELSE Len(callbacks)

\* A notifyCallbacks without the try of line 337.
notifyCallbacksUnguarded(callbacks, event) ==
    [notified |-> [i \in 1..firstThrow(callbacks) |-> i],
     invoked |-> SubSeq(callbacks, 1, firstThrow(callbacks)),
     callbacks |-> callbacks,
     raised |-> \E i \in DOMAIN callbacks : callbacks[i] = "throws"]

\* Lines 261-266: indexOf finds the first occurrence, splice removes it.
unregisterCallback(callbacks, callback) ==
    IF \E i \in DOMAIN callbacks : callbacks[i] = callback
        THEN LET index == CHOOSE i \in DOMAIN callbacks :
                              callbacks[i] = callback
                                  /\ \A k \in 1..(i - 1) : callbacks[k] # callback
             IN  SubSeq(callbacks, 1, index - 1)
                     \o SubSeq(callbacks, index + 1, Len(callbacks))
        ELSE callbacks

\* What a callback does to the stream's list while it is being notified: it
\* returns or throws, unregisters itself, unregisters the callback "returns",
\* or registers the callback "late".
callbackEffect(callback, callbacks) ==
    CASE callback = "unregistersSelf" -> unregisterCallback(callbacks, callback)
      [] callback = "unregistersOther" -> unregisterCallback(callbacks, "returns")
      [] callback = "registers" -> Append(callbacks, "late")
      [] OTHER -> callbacks

\* The for...of of line 336 from position i on: the array iterator holds an
\* index into the live array and compares it with the array's length at each
\* step.
RECURSIVE notifyFrom(_, _, _)
notifyFrom(callbacks, i, told) ==
    IF i > Len(callbacks)
        THEN [notified |-> told.notified, invoked |-> told.invoked,
              callbacks |-> callbacks, raised |-> FALSE]
        ELSE notifyFrom(callbackEffect(callbacks[i], callbacks), i + 1,
                        [notified |-> Append(told.notified, i),
                         invoked |-> Append(told.invoked, callbacks[i])])

\* Lines 335-343: the callbacks invoked, in order, and whether an exception
\* leaves the loop.
notifyCallbacks(callbacks, event) ==
    notifyFrom(callbacks, 1, [notified |-> <<>>, invoked |-> <<>>])

\* { ...event, timestamp: v }: a key the event has keeps its place.
WithField(obj, k, v) ==
    IF \E i \in DOMAIN obj : obj[i][1] = k
        THEN [i \in DOMAIN obj |-> IF obj[i][1] = k THEN Def(k, v) ELSE obj[i]]
        ELSE Append(obj, Def(k, v))

\* Lines 310-318.
fullEventOf(event) ==
    LET timed == WithField(event, "timestamp",
                        IF HasKey(event, "timestamp") THEN Get(event, "timestamp") ELSE now)
    IN  IF HasKey(timed, "trustBefore") /\ HasKey(timed, "trustAfter")
            THEN WithField(timed, "trustDelta",
                           Get(timed, "trustAfter") - Get(timed, "trustBefore"))
            ELSE timed

\* Lines 305-324.
emit(event, bytes, io) ==
    IF ~shouldEmit(Get(event, "severity"), stream.minSeverity)
        THEN /\ stream' = [stream EXCEPT !.emits = @ + 1]
             /\ ret' = [op |-> "emit", raised |-> FALSE, returned |-> "undefined",
                        value |-> <<>>, input |-> event, io |-> io, notified |-> <<>>,
                        invoked |-> <<>>, before |-> stream]
        ELSE LET fullEvent == fullEventOf(event)
                 written == writeEvent([stream EXCEPT !.emits = @ + 1], fullEvent, bytes, io)
                 told == IF written.raised
                             THEN [notified |-> <<>>, invoked |-> <<>>,
                                   callbacks |-> stream.callbacks, raised |-> TRUE]
                             ELSE notifyCallbacks(stream.callbacks, fullEvent)
             IN  /\ stream' = [written.stream EXCEPT !.callbacks = told.callbacks]
                 /\ ret' = [op |-> "emit", raised |-> told.raised,
                            returned |-> IF told.raised THEN "nothing" ELSE "event",
                            value |-> IF told.raised THEN <<>> ELSE fullEvent,
                            input |-> event, io |-> io, notified |-> told.notified,
                            invoked |-> told.invoked, before |-> stream]

\* Lines 254-256.
registerCallback(callback) ==
    /\ stream' = [stream EXCEPT !.callbacks = Append(@, callback)]
    /\ ret' = [op |-> "registerCallback", raised |-> FALSE, value |-> <<>>]


(***************************************************************************)
(* One EventStream with a minimum severity, callbacks that are registered  *)
(* as the run goes, and emits whose append works or fails.                 *)
(***************************************************************************)
MaxCallbacks == 2
MaxEmits == 1

\* The length of a serialised event with its newline, in bytes.
EventBytes == 64

\* The severities handed to emit: those of the table and one it lacks.
SeverityInputs == SeverityNames \cup {"fatal"}

EventOf(severity) ==
    << Def("type", "policy_decision"), Def("severity", severity),
       Def("sessionId", SessionId), Undef("agentId"), Def("metadata", <<>>) >>

InitStreamWith(streams) ==
    /\ log = <<>>
    /\ prevHash = Genesis
    /\ recordCount = 0
    /\ signing = NoSigning
    /\ tampered = 0
    /\ limiter = NoLimiter
    /\ session = NewSession
    /\ config = resolveConfig("permissive", <<>>)
    /\ pc = "idle"
    /\ stash = NoStash
    /\ lastR6 = <<>>
    /\ postCalls = <<>>
    /\ admitLog = <<>>
    /\ peer = NoPeer
    /\ calls = <<>>
    /\ stream \in streams
    /\ runtime = NoRuntime
    /\ now = 0
    /\ ret = NoRet

streamFrame == <<chainVars, hookVars, config, tampered, peer, calls, runtime, now>>

Emit(event, bytes, io) ==
    /\ emit(event, bytes, io)
    /\ UNCHANGED streamFrame

RegisterCallback(callback) ==
    /\ registerCallback(callback)
    /\ UNCHANGED streamFrame

InitStream == InitStreamWith({[NoStream EXCEPT !.minSeverity = m] : m \in SeverityNames})

NextStream ==
    \/ \E callback \in {"returns", "throws"} :
           Len(stream.callbacks) < MaxCallbacks /\ RegisterCallback(callback)
    \/ \E severity \in SeverityInputs, append \in {"ok", "appendFails", "serializeFails"} :
           /\ stream.emits < MaxEmits
           /\ Emit(EventOf(severity), EventBytes, [rotation |-> "none", append |-> append])

SpecStream == InitStream /\ [][NextStream]_vars

\* The severities from least to most severe.
SeverityRank == <<"debug", "info", "warn", "alert", "error">>
rankOf(severity) == CHOOSE i \in DOMAIN SeverityRank : SeverityRank[i] = severity
atLeast(severity, minSeverity) ==
    /\ \E i \in DOMAIN SeverityRank : SeverityRank[i] = severity
    /\ rankOf(severity) >= rankOf(minSeverity)

\* The lines of the stream file, none when there is no file.
streamLines(dir) ==
    IF \E f \in dir : f.name = StreamFile
        THEN (CHOOSE f \in dir : f.name = StreamFile).lines ELSE <<>>

allCallbacks(st) == [i \in 1..Len(st.callbacks) |-> i]

\* C21 (severity filtering): an emit whose event has a severity at or above
\* the stream's minSeverity (debug < info < warn < alert < error) returns the
\* event, notifies the callbacks and, when the append works, adds one line to
\* the stream file; any other emit appends nothing, invokes no callback and
\* returns undefined.
C21_SeverityFilter ==
    ret.op = "emit" =>
        IF atLeast(Get(ret.input, "severity"), ret.before.minSeverity)
            THEN /\ ret.returned = "event"
                 /\ ret.notified = allCallbacks(ret.before)
                 /\ ret.io.append = "ok" =>
                        Len(streamLines(stream.dir)) = Len(streamLines(ret.before.dir)) + 1
            ELSE /\ ret.returned = "undefined"
                 /\ ret.notified = <<>>
                 /\ stream.dir = ret.before.dir

\* An event exactly at the minimum severity has been appended and delivered.
C21_Witness ==
    /\ ret.op = "emit"
    /\ ret.before.minSeverity = "warn" /\ Get(ret.input, "severity") = "warn"
    /\ Len(ret.before.callbacks) >= 1 /\ ret.notified = allCallbacks(ret.before)
    /\ Len(streamLines(stream.dir)) = 1
    /\ ret.returned = "event"

\* C23 (callback isolation): an emit that passes the filter does not raise
\* whatever its callbacks do, and invokes every registered callback, in
\* order, including those registered after one that throws.
C23_CallbackIsolation ==
    (ret.op = "emit" /\ atLeast(Get(ret.input, "severity"), ret.before.minSeverity)) =>
        ~ret.raised /\ ret.notified = allCallbacks(ret.before)

\* The first callback throws and the second has been invoked all the same.
C23_Witness ==
    /\ ret.op = "emit"
    /\ ret.before.callbacks = <<"throws", "returns">>
    /\ ret.notified = <<1, 2>>
    /\ ~ret.raised

\* C24 (best-effort emission): an emit whose append or serialisation fails
\* does not raise; the failure is logged to stderr, nothing is appended, the
\* callbacks are notified and the event is returned.
C24_BestEffortEmit ==
    (/\ ret.op = "emit" /\ ret.io.append # "ok"
     /\ atLeast(Get(ret.input, "severity"), ret.before.minSeverity)) =>
        /\ ~ret.raised
        /\ ret.returned = "event" /\ Get(ret.value, "severity") = Get(ret.input, "severity")
        /\ stream.stderr = ret.before.stderr + 1
        /\ streamLines(stream.dir) = streamLines(ret.before.dir)
        /\ ret.notified = allCallbacks(ret.before)

\* The append of an event has failed and a callback has still been told.
C24_Witness ==
    /\ ret.op = "emit"
    /\ ret.io.append = "appendFails"
    /\ stream.stderr = 1
    /\ Len(ret.notified) >= 1
    /\ ret.returned = "event"


(***************************************************************************)
(* One EventStream whose file is at or near the rotation threshold when    *)
(* the writer starts, with and without an older backup, and emits whose    *)
(* rotation and append work or fail.                                       *)
(***************************************************************************)
MaxRotationEmits == 2

\* A file other writers left behind: its lines are not this writer's.
OldFile(name, size) == [name |-> name, size |-> size, lines |-> <<>>]

RotationDirs ==
    LET full == MAX_FILE_SIZE_MB * BytesPerMb IN
    {{},
     {OldFile(StreamFile, full - EventBytes)},
     {OldFile(StreamFile, full - 1)},
     {OldFile(StreamFile, full)},
     {OldFile(StreamFile, full + 1), OldFile(Rotated, full)}}

InitRotation == InitStreamWith({[NoStream EXCEPT !.dir = d] : d \in RotationDirs})

NextRotation ==
    \E rotation \in {"none", "stat", "unlink", "rename"}, append \in {"ok", "appendFails"} :
        /\ stream.emits < MaxRotationEmits
        /\ Emit(EventOf("alert"), EventBytes, [rotation |-> rotation, append |-> append])

SpecRotation == InitRotation /\ [][NextRotation]_vars

\* The files of the directory other than the stream file.
backups(dir) == {f \in dir : f.name # StreamFile}

\* The stream file is due for rotation: it exists and holds 100 MiB or more.
due(dir) == \E f \in dir : f.name = StreamFile /\ f.size >= 104857600

\* A step of the rotation fails: the stat, the rename, or the unlink of a
\* backup that is there.
rotationFails(dir, io) ==
    \/ io.rotation \in {"stat", "rename"}
    \/ io.rotation = "unlink" /\ \E f \in dir : f.name = StreamFile \o <<".1">>

\* C22 (rotation): before the write of an emit the stream file is rotated
\* exactly when it holds 100 MiB or more: it becomes <path>.1, replacing any
\* .1 there was, and the event is the one line of a fresh file.  Below the
\* threshold the event is appended to the file as it is and the backup is
\* untouched.  A rotation that fails does not raise and the event is still
\* appended.  At all times there is at most one backup.
C22_Rotation ==
    /\ Cardinality(backups(stream.dir)) <= 1
    /\ ret.op = "emit" =>
           LET old == ret.before.dir
               appended == ret.io.append = "ok"
           IN  /\ ~ret.raised
               /\ appended => /\ streamLines(stream.dir) # <<>>
                              /\ streamLines(stream.dir)[Len(streamLines(stream.dir))].doc
                                     = serializeEvent(ret.value).doc
               /\ IF due(old) /\ ~rotationFails(old, ret.io)
                      THEN /\ backups(stream.dir) =
                                  {[f EXCEPT !.name = StreamFile \o <<".1">>] :
                                       f \in {g \in old : g.name = StreamFile}}
                           /\ appended =>
                                  {f \in stream.dir : f.name = StreamFile} =
                                      {[name |-> StreamFile, size |-> EventBytes,
                                        lines |-> <<serializeEvent(ret.value)>>]}
                           /\ ~appended => ~\E f \in stream.dir : f.name = StreamFile
                      ELSE /\ ~due(old) => backups(stream.dir) = backups(old)
                           /\ appended =>
                                  /\ Len(streamLines(stream.dir)) = Len(streamLines(old)) + 1
                                  /\ \A f \in old : f.name = StreamFile =>
                                         \E g \in stream.dir :
                                             g.name = StreamFile /\ g.size = f.size + EventBytes

\* A full stream file has replaced an older backup and the event has started
\* a fresh file.
C22_Witness ==
    /\ ret.op = "emit"
    /\ Cardinality(ret.before.dir) = 2
    /\ backups(stream.dir) = {OldFile(StreamFile \o <<".1">>, 104857601)}
    /\ streamLines(stream.dir) = <<serializeEvent(ret.value)>>


(***************************************************************************)
(* extractTarget on parameter objects that carry any subset of the five    *)
(* target keys, written in the reverse of the order the function reads     *)
(* them, with empty values and with commands around the 80 character cut.  *)
(***************************************************************************)
Repeat(ch, n) == [i \in 1..n |-> ch]

\* What one key of the parameters may be: absent, undefined, empty, a value.
KeyChoices(k, values) ==
    {<<>>, <<Undef(k)>>, <<Def(k, <<>>)>>} \cup {<<Def(k, v)>> : v \in values}

TargetParams ==
    {u \o c \o p \o q \o f :
        u \in KeyChoices("url", {<<"h", ":", "/", "/", "x">>}),
        c \in {<<>>, <<Def("command", <<>>)>>} \cup
              {<<Def("command", Repeat("c", n))>> : n \in {2, CommandCut, CommandCut + 1, CommandCut + 5}},
        p \in {<<>>, <<Def("pattern", <<>>)>>, <<Def("pattern", <<"*", ".", "t", "s">>)>>},
        q \in {<<>>, <<Def("path", <<>>)>>, <<Def("path", <<"/", "s", "r", "c">>)>>},
        f \in KeyChoices("file_path", {<<"/", "a", ".", "t", "s">>})}

ExtractTarget ==
    /\ ret.op = "input"
    /\ Returns("extractTarget", ret.value, extractTarget("Read", ret.value))

InitTarget == InitInput(TargetParams)

NextTarget == ExtractTarget

SpecTarget == InitTarget /\ [][NextTarget]_vars

\* The keys of a primary target, in the order of precedence.
TargetKeys == <<"file_path", "path", "pattern", "command", "url">>

\* The value the result shows for a key: a command cut to its first 80
\* characters and an ellipsis when it is longer, any other value as it is.
shown(k, v) ==
    IF k = "command" /\ Len(v) > 80
        THEN [i \in 1..83 |-> IF i <= 80 THEN v[i] ELSE "."]
        ELSE v

\* The result that picks the first key satisfying `counts`, or undefined.
firstOf(params, counts(_)) ==
    IF \E i \in 1..5 : counts(TargetKeys[i])
        THEN LET i == CHOOSE j \in 1..5 :
                          /\ counts(TargetKeys[j])
                          /\ \A h \in 1..(j - 1) : ~counts(TargetKeys[h])
                 v == (CHOOSE f \in {params[n] : n \in DOMAIN params} :
                           f[1] = TargetKeys[i] /\ Len(f) = 2)[2]
             IN  shown(TargetKeys[i], v)
        ELSE <<"undefined">>

\* C25 as stated (primary target extraction): extractTarget returns the first
\* of file_path, path, pattern, command and url that is present in the
\* parameters, a command cut to 80 characters and an ellipsis when longer, and
\* undefined when none is present.
C25_FirstPresent ==
    ret.op = "extractTarget" =>
        ret.value = firstOf(ret.input,
                            LAMBDA k : \E n \in DOMAIN ret.input :
                                           ret.input[n][1] = k /\ Len(ret.input[n]) = 2)

\* C25 as the code has it: extractTarget returns the first of file_path, path,
\* pattern, command and url whose value is present and not empty, a command
\* cut to 80 characters and an ellipsis when longer, and undefined when none
\* has such a value.
C25_FirstNonEmpty ==
    ret.op = "extractTarget" =>
        ret.value = firstOf(ret.input,
                            LAMBDA k : \E n \in DOMAIN ret.input :
                                           /\ ret.input[n][1] = k
                                           /\ Len(ret.input[n]) = 2
                                           /\ ret.input[n][2] # <<>>)

\* An empty file_path and an empty path are passed over and a command of 81
\* characters comes back as its first 80 and the ellipsis, ahead of the url.
C25_Witness ==
    /\ ret.op = "extractTarget"
    /\ \E n \in DOMAIN ret.input : ret.input[n] = <<"file_path", <<>>>>
    /\ \E n \in DOMAIN ret.input : ret.input[n] = <<"path", <<>>>>
    /\ \E n \in DOMAIN ret.input : ret.input[n][1] = "url" /\ Len(ret.input[n]) = 2
    /\ \E n \in DOMAIN ret.input :
           /\ ret.input[n][1] = "command"
           /\ Len(ret.input[n][2]) = 81
           /\ ret.value = SubSeq(ret.input[n][2], 1, 80) \o <<".", ".", ".">>


(***************************************************************************)
(* Two PersistentRateLimiters given the same calls at the same times: one  *)
(* whose better-sqlite3 loaded and one on the in-memory fallback.  The     *)
(* variable limiter holds the table of the first and the map of the        *)
(* second; every call is made on both and returns both results.            *)
(***************************************************************************)
Durable(L) == [L EXCEPT !.isPersistent = TRUE]
Fallback(L) == [L EXCEPT !.isPersistent = FALSE]

Both(d, m) == [isPersistent |-> TRUE, db |-> d.db, memoryFallback |-> m.memoryFallback]

BackendReturns(op, durable, fallback) ==
    /\ ret' = [op |-> op, raised |-> FALSE,
               value |-> [durable |-> durable, fallback |-> fallback]]
    /\ UNCHANGED <<chainVars, session, pc, stash, lastR6, postCalls, fixedVars, now>>

BackendCheck(key, maxCount, windowMs) ==
    LET d == check(Durable(limiter), key, maxCount, windowMs)
        m == check(Fallback(limiter), key, maxCount, windowMs)
    IN  /\ limiter' = Both(d.limiter, m.limiter)
        /\ BackendReturns("check", d.result, m.result)
        /\ UNCHANGED admitLog

BackendRecord(key) ==
    /\ limiter' = Both(limiterRecord(Durable(limiter), key),
                       limiterRecord(Fallback(limiter), key))
    /\ admitLog' = Append(admitLog, <<key, now>>)
    /\ BackendReturns("record", <<>>, <<>>)

BackendPrune(windowMs) ==
    LET d == limiterPrune(Durable(limiter), windowMs)
        m == limiterPrune(Fallback(limiter), windowMs)
    IN  /\ limiter' = Both(d.limiter, m.limiter)
        /\ BackendReturns("prune", d.result, m.result)
        /\ UNCHANGED admitLog

BackendCount(key, windowMs) ==
    /\ BackendReturns("count", limiterCount(Durable(limiter), key, windowMs),
                      limiterCount(Fallback(limiter), key, windowMs))
    /\ UNCHANGED <<limiter, admitLog>>

BackendKeyCount ==
    /\ BackendReturns("keyCount", keyCount(Durable(limiter)), keyCount(Fallback(limiter)))
    /\ UNCHANGED <<limiter, admitLog>>

InitBackends ==
    InitWith({resolveConfig("permissive", <<>>)}, {NoLimiter}, {SessionKey})

NextBackends ==
    \/ \E key \in RateKeys, maxCount \in 0..2, windowMs \in 1..2 :
           BackendCheck(key, maxCount, windowMs)
    \/ \E key \in RateKeys : Len(admitLog) < MaxEvents /\ BackendRecord(key)
    \/ \E windowMs \in 1..2 : BackendPrune(windowMs)
    \/ \E key \in RateKeys, windowMs \in 1..2 : BackendCount(key, windowMs)
    \/ BackendKeyCount
    \/ Tick(MaxRateTime)

SpecBackends == InitBackends /\ [][NextBackends]_vars

\* C26 (backend equivalence): after the same calls at the same times, every
\* check, record, prune, count and keyCount returns the same result from the
\* in-memory fallback as from the durable store.
C26_BackendEquivalence ==
    ret.op \in {"check", "record", "prune", "count", "keyCount"} =>
        ret.value.fallback = ret.value.durable


(***************************************************************************)
(* The facade under the rate-limited rule, over either backend, next to a  *)
(* caller that records on the same limiter, between the facade's calls,    *)
(* without asking check first.                                             *)
(***************************************************************************)
InitRecord == InitRate

NextRecord ==
    \/ Len(log) < MaxSessionRecords /\ PreCall(CallRm)
    \/ \E uuid8 \in UUIDs : PostCall("success", uuid8)
    \/ \E key \in RateKeys :
           /\ pc = "idle"
           /\ Len(admitLog) <= MaxRecords
           /\ LimiterRecord(key)
    \/ Tick(MaxTime)

SpecRecord == InitRecord /\ [][NextRecord]_vars

\* The keys the limiter L holds events for.
keysOf(L) ==
    IF L.isPersistent THEN {L.db[j].key : j \in DOMAIN L.db} ELSE DOMAIN L.memoryFallback

\* The times of the events L holds for key, oldest insertion first.
RECURSIVE timesOf(_, _)
timesOf(rows, key) ==
    IF rows = <<>> THEN <<>>
    ELSE (IF rows[1].key = key THEN <<rows[1].timestamp>> ELSE <<>>)
             \o timesOf(Tail(rows), key)

eventsOf(L, key) ==
    IF L.isPersistent THEN timesOf(L.db, key)
    ELSE IF key \in DOMAIN L.memoryFallback THEN L.memoryFallback[key]
    ELSE <<>>

\* The record calls of a step, read off the history: the keys added to admitLog.
recordedIn(before, after) == SubSeq(after, Len(before) + 1, Len(after))

\* C27 (record): every record(key) adds exactly one event (key, now) to the
\* key's events, whatever number of events the key already has, and leaves the
\* events of every other key as they were; a pre-call evaluation records
\* nothing, and the records of a post-call are those of the rate-limit keys
\* that admitted the call.
C27_RecordFrame ==
    [][LET calls27 == recordedIn(admitLog, admitLog')
           keys == keysOf(limiter) \cup keysOf(limiter') \cup RateKeys
       IN  /\ calls27 # <<>> =>
                  /\ \A n \in DOMAIN calls27 : calls27[n][2] = now
                  /\ \A k \in keys :
                         eventsOf(limiter', k) =
                             eventsOf(limiter, k)
                                 \o [n \in 1..Cardinality({m \in DOMAIN calls27 :
                                                              calls27[m][1] = k}) |-> now]
           /\ (pc = "idle" /\ pc' = "gated") =>
                  /\ calls27 = <<>>
                  /\ \A k \in keys : Len(eventsOf(limiter', k)) <= Len(eventsOf(limiter, k))
           /\ (pc = "gated" /\ pc' = "idle") =>
                  /\ [n \in DOMAIN calls27 |-> calls27[n][1]] = stash.evaluation.under
                  /\ stash.evaluation.decision = "deny" => calls27 = <<>>
      ]_vars

\* A record made for the rate rule's key when it already held as many events
\* as the rule's limit, two of them from post-calls, while another key holds
\* its one event as before.
C27_Witness ==
    /\ ret.op = "limiterRecord"
    /\ ret.key = <<"ratelimit", "limit-bash", "tool", "Bash">>
    /\ eventsOf(limiter, ret.key) = <<0, 0, now>>
    /\ Len(log) = 2
    /\ \E k \in RateKeys : k # ret.key /\ eventsOf(limiter, k) = <<0>>


(***************************************************************************)
(* verifySignature on signatures made by signData under two keys, whole,   *)
(* cut short, lengthened or with a character that is not hex, against      *)
(* public keys that parse and public keys that do not.                     *)
(***************************************************************************)
SignedData == {<<"{", "a", "}">>, <<"{", "b", "}">>}

SigningKeys == {SessionKey, OtherKey}

SignatureInputs ==
    LET made == {signData(d, PrivateKeyHex(k)) : d \in SignedData, k \in SigningKeys}
    IN  made \cup {Spoiled(sg, form) : sg \in made, form \in {"badHex", "short", "long"}}

PublicKeyInputs ==
    {PublicKeyHex(k) : k \in SigningKeys}
        \cup {PublicKeyHex(SessionKey) \o <<"badHex">>, PrivateKeyHex(SessionKey), <<>>}

VerifySignature ==
    /\ ret.op = "input"
    /\ LET call == verifySignatureCall(ret.value.data, ret.value.signature,
                                       ret.value.publicKeyHex)
       IN  ret' = [op |-> "verifySignature", raised |-> call.raised,
                   input |-> ret.value, value |-> call.value]
    /\ UNCHANGED <<chainVars, hookVars, fixedVars, now>>

InitSignature ==
    InitInput({[data |-> d, signature |-> sg, publicKeyHex |-> pk] :
                   d \in SignedData, sg \in SignatureInputs, pk \in PublicKeyInputs})

NextSignature == VerifySignature

SpecSignature == InitSignature /\ [][NextSignature]_vars

\* C28 (signature verification is total): verifySignature returns a boolean
\* for every input and never throws; it returns true exactly for the
\* signature signData made of the same data under the private key of the
\* given public key, and false when the data or the key differ, when the
\* signature is malformed hex or of the wrong length, and when the public key
\* cannot be parsed.
C28_VerifyTotal ==
    ret.op = "verifySignature" =>
        /\ ~ret.raised
        /\ ret.value \in BOOLEAN
        /\ ret.value <=>
               \E k \in SigningKeys :
                   /\ ret.input.publicKeyHex = PublicKeyHex(k)
                   /\ ret.input.signature = signData(ret.input.data, PrivateKeyHex(k))

\* A whole signature of the data checked against a public key that does not
\* parse: false, without an exception.
C28_Witness ==
    /\ ret.op = "verifySignature"
    /\ ret.input.signature = signData(ret.input.data, PrivateKeyHex(SessionKey))
    /\ ret.input.publicKeyHex = PublicKeyHex(SessionKey) \o <<"badHex">>
    /\ ret.value = FALSE
    /\ ~ret.raised


(***************************************************************************)
(* Loading a policy and matching under it.  matchers.ts gives the          *)
(* validation of one rule's patterns and the matching; the PolicyEngine    *)
(* constructor that calls the validation for every rule (policy.ts) is     *)
(* taken from the specification: a config with any error is rejected.      *)
(***************************************************************************)
\* validatePolicyMatchPatterns that looks at the first pattern of a rule only.
validatePolicyMatchPatternsFirst(match, ruleId) ==
    IF /\ HasKey(match, "targetPatterns")
       /\ HasKey(match, "targetPatternsAreRegex") /\ Get(match, "targetPatternsAreRegex")
       /\ Get(match, "targetPatterns") # <<>>
       /\ ~validateRegexPattern(Get(match, "targetPatterns")[1]).valid
        THEN <<<<ruleId, Get(match, "targetPatterns")[1]>>>>
        ELSE <<>>

\* Lines 68-81: one error for every regex-mode pattern that fails validation.
validatePolicyMatchPatterns(match, ruleId) ==
    IF /\ HasKey(match, "targetPatterns")
       /\ HasKey(match, "targetPatternsAreRegex") /\ Get(match, "targetPatternsAreRegex")
        THEN LET patterns == Get(match, "targetPatterns")
                 failing == SelectSeq(patterns, LAMBDA p : ~validateRegexPattern(p).valid)
             IN  [n \in DOMAIN failing |-> <<ruleId, failing[n]>>]
        ELSE <<>>

\* The errors of all the rules of a configuration, in rule order.
RECURSIVE loadErrors(_, _)
loadErrors(rules, i) ==
    IF i > Len(rules) THEN <<>>
    ELSE validatePolicyMatchPatterns(rules[i].match, rules[i].id) \o loadErrors(rules, i + 1)

\* matchesTarget (lines 122-136) throws where new RegExp(pattern) does: at the
\* first pattern that does not compile, if no pattern before it matched.
matchesTargetRaises(target, patterns, useRegex) ==
    /\ target # NoTarget
    /\ useRegex
    /\ \E i \in DOMAIN patterns :
           /\ ~Compiles(patterns[i])
           /\ \A j \in 1..(i - 1) : Compiles(patterns[j]) /\ ~RegExpTest(patterns[j], target)

\* matchesRule (lines 143-158) throws where its call of matchesTarget does.
matchesRuleRaises(toolName, category, target, match) ==
    /\ ~(HasKey(match, "tools") /\ ~matchesList(toolName, Get(match, "tools")))
    /\ ~(HasKey(match, "categories") /\ ~matchesList(category, Get(match, "categories")))
    /\ HasKey(match, "targetPatterns")
    /\ matchesTargetRaises(target, Get(match, "targetPatterns"),
                           IF HasKey(match, "targetPatternsAreRegex")
                               THEN Get(match, "targetPatternsAreRegex") ELSE FALSE)

LoadMatches ==
    {<<Def("tools", <<"Bash">>)>>} \cup
    {<<Def("targetPatterns", ps)>> \o mode :
        ps \in {<<<<"a", ".">>>>, <<<<"(">>>>, <<<<"(", "a", "+", ")", "+">>>>,
                <<<<"a", ".", "*">>, <<"a", "*", "*">>>>,
                <<<<"x", ".">>, <<"a", ".", "*">>>>, <<<<"*", ".", "t">>>>},
        mode \in {<<>>, <<Def("targetPatternsAreRegex", TRUE)>>,
                  <<Def("targetPatternsAreRegex", FALSE)>>}}

LoadRule(id, match) == [id |-> id, priority |-> 1, decision |-> "deny", match |-> match]

LoadConfigs ==
    {[defaultPolicy |-> "allow", enforce |-> TRUE, rules |-> <<LoadRule("r1", m)>>] :
         m \in LoadMatches}
    \cup {[defaultPolicy |-> "allow", enforce |-> TRUE,
           rules |-> <<LoadRule("r1", <<Def("tools", <<"Read">>)>>), LoadRule("r2", m)>>] :
              m \in LoadMatches}

LoadTargets == {NoTarget, <<"a", "b">>, <<"(">>, <<"x", ".", "t">>}

\* new PolicyEngine(config): the constructor throws when a rule has an error.
LoadPolicy ==
    /\ ret.op = "none"
    /\ ret' = [op |-> "load", raised |-> loadErrors(config.rules, 1) # <<>>,
               value |-> loadErrors(config.rules, 1)]
    /\ UNCHANGED <<chainVars, hookVars, fixedVars, now>>

\* The engine exists: its constructor returned.
loaded == ret.op \in {"matchesRule", "evaluate"} \/ (ret.op = "load" /\ ~ret.raised)

\* matchesRule on rule i of the loaded configuration.
MatchLoaded(i, toolName, target) ==
    LET category == classifyToolWithTarget(toolName, target)
        match == config.rules[i].match
    IN  /\ loaded
        /\ ret' = [op |-> "matchesRule",
                   raised |-> matchesRuleRaises(toolName, category, target, match),
                   value |-> matchesRule(toolName, category, target, match)]
        /\ UNCHANGED <<chainVars, hookVars, fixedVars, now>>

\* evaluate on the loaded configuration: it raises if the matching of one of
\* its rules does.
EvaluateLoaded(toolName, target) ==
    LET category == classifyToolWithTarget(toolName, target)
        evaluation == evaluate(limiter, [toolName |-> toolName, category |-> category,
                                         target |-> target,
                                         hour |-> getHours(now), day |-> getDay(now)])
    IN  /\ loaded
        /\ ret' = [op |-> "evaluate",
                   raised |-> \E i \in DOMAIN config.rules :
                                  matchesRuleRaises(toolName, category, target,
                                                    config.rules[i].match),
                   value |-> evaluation.decision]
        /\ UNCHANGED <<chainVars, hookVars, fixedVars, now>>

InitLoad == InitWith(LoadConfigs, {NoLimiter}, {SessionKey})

NextLoad ==
    \/ LoadPolicy
    \/ \E i \in DOMAIN config.rules, toolName \in {"Bash", "Read"}, target \in LoadTargets :
           MatchLoaded(i, toolName, target)
    \/ \E toolName \in {"Bash", "Read"}, target \in LoadTargets :
           EvaluateLoaded(toolName, target)

SpecLoad == InitLoad /\ [][NextLoad]_vars

\* The target patterns of a rule that matching compiles as regular expressions.
regexModePatterns(match) ==
    IF /\ \E f \in DOMAIN match : match[f][1] = "targetPatterns" /\ Len(match[f]) = 2
       /\ \E f \in DOMAIN match :
              match[f][1] = "targetPatternsAreRegex" /\ Len(match[f]) = 2 /\ match[f][2]
        THEN LET ps == match[CHOOSE f \in DOMAIN match : match[f][1] = "targetPatterns"][2]
             IN  {ps[n] : n \in DOMAIN ps}
        ELSE {}

\* The regex-mode patterns of the configuration that fail validateRegexPattern.
failingPatterns ==
    UNION {{p \in regexModePatterns(config.rules[i].match) : ~validateRegexPattern(p).valid} :
               i \in DOMAIN config.rules}

\* C29 (policy evaluation never raises): loading a configuration is rejected
\* exactly when one of its regex-mode target patterns fails
\* validateRegexPattern, one that does not compile included; under a
\* configuration that was accepted, matching any rule against any tool,
\* category and target (undefined included) returns a boolean without
\* raising, evaluation does not raise, and no failing pattern is there to be
\* compiled.
C29_EvaluationNeverRaises ==
    /\ ret.op = "load" => (ret.raised <=> failingPatterns # {})
    /\ ret.op \in {"matchesRule", "evaluate"} => ~ret.raised /\ failingPatterns = {}
    /\ ret.op = "matchesRule" => ret.value \in BOOLEAN

\* Under an accepted configuration whose second rule has two regex-mode
\* patterns, matching has compiled them and found the target.
C29_Witness ==
    /\ ret.op = "matchesRule"
    /\ ret.value = TRUE
    /\ Len(config.rules) = 2
    /\ Cardinality(regexModePatterns(config.rules[2].match)) = 2

(***************************************************************************)
(* An AuditChain that is constructed again over its log, the read of the   *)
(* log working or failing, and records after it.                           *)
(***************************************************************************)
\* new AuditChain(...) when readFileSync of the existing log throws.
RestartReadFails ==
    /\ loadExistingFails(signing)
    /\ UNCHANGED <<hookVars, fixedVars, now>>

InitStorage == InitChain

NextStorage ==
    \/ \E r6 \in R6Samples, result \in ResultSamples :
           Len(log) < MaxRecords /\ Record(r6, result)
    \/ Restart
    \/ RestartReadFails

SpecStorage == InitStorage /\ [][NextStorage]_vars

\* C30 (no fallback on storage failure): a construction over an existing log
\* either fails or leaves the chain at the head of that log; it never returns
\* with prevHash "genesis" and count 0 over a log that has records, and so no
\* record after the first is appended to a log with the genesis link.
C30_NoFallback ==
    /\ (ret.op = "construct" /\ ~ret.raised /\ log # <<>>) =>
           prevHash # <<"genesis">> /\ recordCount # 0
    /\ \A i \in 2..Len(log) :
           LET provenance == (CHOOSE f \in {log[i].doc[n] : n \in DOMAIN log[i].doc} :
                                  f[1] = "provenance")[2]
           IN  \A n \in DOMAIN provenance :
                   provenance[n][1] = "prevRecordHash" => provenance[n][2] # <<"genesis">>


(***************************************************************************)
(* The facade with enforce=true under one deny rule on Bash that carries a *)
(* rate limit {maxCount N, windowMs W}, for several N and W, over either   *)
(* backend of the limiter: a sequential host makes calls at any spacing.   *)
(***************************************************************************)
RuleRateOf(maxCount, windowMs) ==
    [RuleRate EXCEPT !.match = <<Def("tools", <<"Bash">>),
                                 Def("rateLimit", [maxCount |-> maxCount,
                                                   windowMs |-> windowMs])>>]

BoundConfigs ==
    {[resolveConfig("permissive", <<RuleRateOf(n, w)>>) EXCEPT !.enforce = TRUE] :
         n \in 0..2, w \in 1..2}

InitBound ==
    InitWith(BoundConfigs, {[NoLimiter EXCEPT !.isPersistent = b] : b \in BOOLEAN},
             {SessionKey})

NextBound ==
    \/ \E call \in {CallRm, CallRead} : Len(log) < MaxRateCalls /\ PreCall(call)
    \/ \E uuid8 \in UUIDs : PostCall("success", uuid8)
    \/ \E uuid8 \in UUIDs : PostCallRaises("success", uuid8)
    \/ Tick(MaxRateTime)

SpecBound == InitBound /\ [][NextBound]_vars

\* The rate-limited rule of the configuration: the last one.
boundRule == config.rules[Len(config.rules)]

\* C31 (rate-limit safety bound): at every instant, the admitted Bash calls
\* recorded under the rule's key within the last W ms are at most N.
C31_RateBound ==
    Cardinality({j \in DOMAIN admitLog :
                    /\ admitLog[j][1] = <<"ratelimit", boundRule.id, "tool", "Bash">>
                    /\ admitLog[j][2] > now - RateLimitOf(boundRule).windowMs})
        <= RateLimitOf(boundRule).maxCount


(***************************************************************************)
(* A log that is verified, then cut to its first k lines by someone with   *)
(* access to the file and verified again with the same keys.               *)
(***************************************************************************)
\* The trailing lines after the first kept are removed from the file and
\* verify(publicKeys) runs on what is left; before is the report on the file
\* as it was.
VerifyPrefix(kept) ==
    /\ ret.op \in {"verify", "verifyPrefix"}
    /\ kept \in 0..Len(log)
    /\ log' = SubSeq(log, 1, kept)
    /\ tampered' = kept + 1
    /\ ret' = [op |-> "verifyPrefix", raised |-> FALSE,
               value |-> verifyReport(SubSeq(log, 1, kept), ret.keys),
               keys |-> ret.keys, kept |-> kept, before |-> ret.value]
    /\ UNCHANGED <<prevHash, recordCount, signing, hookVars, config, peer, calls, stream, runtime, now>>

NextPrefix ==
    \/ \E result \in ResultSamples :
           /\ tampered = 0 /\ Len(log) < MaxRecords
           /\ log # <<>> => Get(result, "status") = "success"
           /\ Record(DamageR6, result)
    \/ \E i \in 1..MaxRecords, kind \in DamageKinds : Damage(i, kind)
    \/ \E publicKeys \in {<<>>, SessionKeys, OtherKeys} : Verify(publicKeys)
    \/ \E kept \in 0..MaxRecords : VerifyPrefix(kept)

SpecPrefix == InitChain /\ [][NextPrefix]_vars

NextCategory ==
    \/ \E call \in Calls : Len(log) < MaxSessionRecords /\ PreCall(call)
    \/ \E outcome \in {"success", "error"}, uuid8 \in UUIDs : PostCall(outcome, uuid8)
    \/ \E uuid8 \in UUIDs : PostCallRaises("success", uuid8)
    \/ Tick(MaxTime)

SpecCategory == Init /\ [][NextCategory]_vars

\* C33 (category consistency): the category of the R6 request built at
\* post-call, and the category of the audit record appended for it, is the
\* category the policy evaluation of the same call used at pre-call.
C33_CategoryConsistency ==
    [][(pc = "gated" /\ pc' = "idle" /\ Len(log') = Len(log) + 1) =>
           /\ lastR6'.request.category = stash.category
           /\ \E f \in DOMAIN log'[Len(log')].doc :
                  log'[Len(log')].doc[f] = <<"category", stash.category>>]_vars


(***************************************************************************)
(* The facade under the presets with Bash calls that carry, next to their  *)
(* command, a file_path or a pattern.                                      *)
(***************************************************************************)
CallRmWithPath == [CallRm EXCEPT !.params = @ \o <<Def("file_path", <<"/", "a">>)>>]
CallRmWithPattern == [CallRm EXCEPT !.params = <<Def("pattern", <<"*", ".", "c">>)>> \o @]

NextBash ==
    \/ \E call \in {CallRm, CallRmWithPath, CallRmWithPattern} :
           Len(log) < MaxSessionRecords /\ PreCall(call)
    \/ \E outcome \in {"success", "error"}, uuid8 \in UUIDs : PostCall(outcome, uuid8)
    \/ \E uuid8 \in UUIDs : PostCallRaises("success", uuid8)
    \/ Tick(MaxTime)

SpecBash == Init /\ [][NextBash]_vars

\* The command of a call, as a primary target shows it.
commandOf(call) ==
    LET cmd == (CHOOSE f \in {call.params[n] : n \in DOMAIN call.params} :
                    f[1] = "command")[2]
    IN  IF Len(cmd) > 80 THEN SubSeq(cmd, 1, 80) \o <<".", ".", ".">> ELSE cmd

\* C34 (Bash target from the command): for a Bash call with a non-empty
\* command, whatever other parameters it carries, the target under which the
\* call is audited is the command, and the policy is matched against the
\* command: under the safety preset a command starting with "rm -" is blocked.
C34_BashTargetFromCommand ==
    [][/\ (pc = "gated" /\ pc' = "idle" /\ Len(log') = Len(log) + 1
              /\ stash.call.toolName = "Bash") =>
              lastR6'.request.target = commandOf(stash.call)
       /\ (pc = "idle" /\ pc' = "gated" /\ stash'.call.toolName = "Bash"
              /\ config = resolveConfig("safety", <<>>)
              /\ SubSeq(commandOf(stash'.call), 1, 4) = <<"r", "m", " ", "-">>) =>
              ret'.value.block
      ]_vars


(***************************************************************************)
(* Queries over the session's file: getLast and filter, called by a caller *)
(* that holds the AuditChain, between records.                             *)
(***************************************************************************)
\* Array.prototype.slice(start): a negative start counts from the end, and
\* -0 is 0.
slice(arr, start) ==
    LET len == Len(arr)
        k == IF start < 0
                 THEN (IF len + start > 0 THEN len + start ELSE 0)
                 ELSE (IF start < len THEN start ELSE len)
    IN  SubSeq(arr, k + 1, len)

\* The lines that JSON.parse accepts, parsed; the others are dropped.
parsedLines(lines) ==
    LET kept == SelectSeq(lines, Parseable)
    IN  [j \in DOMAIN kept |-> JSONparse(kept[j])]

getLast(lines, n) == parsedLines(slice(lines, 0 - n))

getAll(lines) == parsedLines(lines)

DefaultFilterLimit == 50

\* criteria has the fields tool, category and status ("" when absent) and
\* limit when one is given; targetPattern and since are absent.
filter(lines, criteria) ==
    LET limit == IF "limit" \in DOMAIN criteria THEN criteria.limit
                 ELSE DefaultFilterLimit
        byTool == IF criteria.tool # ""
                      THEN SelectSeq(getAll(lines),
                                     LAMBDA r : Get(r, "tool") = criteria.tool)
                      ELSE getAll(lines)
        byCategory == IF criteria.category # ""
                          THEN SelectSeq(byTool,
                                   LAMBDA r : Get(r, "category") = criteria.category)
                          ELSE byTool
        byStatus == IF criteria.status # ""
                        THEN SelectSeq(byCategory,
                                 LAMBDA r : Get(Get(r, "result"), "status")
                                                = criteria.status)
                        ELSE byCategory
    IN  slice(byStatus, 0 - limit)

Criteria ==
    {[tool |-> t, category |-> "", status |-> s] :
        t \in {"", "Bash"}, s \in {"", "success"}}
    \cup {[tool |-> t, category |-> c, status |-> "", limit |-> n] :
            t \in {"", "Bash"}, c \in {"", "command"}, n \in 0..MaxRecords}

GetLast(n) ==
    /\ ret' = [op |-> "getLast", raised |-> FALSE, n |-> n, value |-> getLast(log, n)]
    /\ UNCHANGED <<chainVars, hookVars, fixedVars, now>>

Filter(criteria) ==
    /\ ret' = [op |-> "filter", raised |-> FALSE, criteria |-> criteria,
               value |-> filter(log, criteria)]
    /\ UNCHANGED <<chainVars, hookVars, fixedVars, now>>

QueryR6(call) ==
    createR6Request(SessionId, NoAgent, call.toolName, call.params, 0, NoR6Id,
                    "standard", <<"policy", "allow", TRUE>>, "0a1b2c3d")

NextQuery ==
    \/ \E call \in {CallRm, CallTodo}, result \in ResultSamples :
           Len(log) < MaxRecords /\ Record(QueryR6(call), result)
    \/ \E n \in 0..(MaxRecords + 1) : GetLast(n)
    \/ \E criteria \in Criteria : Filter(criteria)

SpecQuery == InitChain /\ [][NextQuery]_vars

\* The n most recent of the records, in log order.
mostRecent(records, n) ==
    SubSeq(records, (IF n < Len(records) THEN Len(records) - n ELSE 0) + 1,
           Len(records))

\* The records of the file that meet the criteria, in log order.
matching(criteria) ==
    SelectSeq([j \in DOMAIN log |-> log[j].doc],
              LAMBDA r : /\ criteria.tool \in {"", Get(r, "tool")}
                         /\ criteria.category \in {"", Get(r, "category")}
                         /\ criteria.status \in {"", Get(Get(r, "result"), "status")})

\* C35 (bounded queries): getLast(n) returns at most n records, the n most
\* recent in log order, for every n >= 0; filter returns at most limit records
\* (at most 50 without a limit), the most recent that match, in log order.
C35_BoundedQueries ==
    /\ ret.op = "getLast" =>
           /\ Len(ret.value) <= ret.n
           /\ ret.value = mostRecent([j \in DOMAIN log |-> log[j].doc], ret.n)
    /\ ret.op = "filter" =>
           LET n == IF "limit" \in DOMAIN ret.criteria THEN ret.criteria.limit ELSE 50
           IN  /\ Len(ret.value) <= n
               /\ ret.value = mostRecent(matching(ret.criteria), n)


\* C36 (check's pruning is incidental): a check on a key changes neither what
\* a count nor what a check on any key returns at the same instant, whichever
\* window the later call uses, also one longer than the check's own.
C36_CheckPruningIncidental ==
    [][ret'.op = "check" =>
           \A key \in RateKeys, windowMs \in 1..(MaxRateTime + 1) :
               /\ limiterCount(limiter', key, windowMs)
                      = limiterCount(limiter, key, windowMs)
               /\ \A maxCount \in 0..2 :
                      check(limiter', key, maxCount, windowMs).result
                          = check(limiter, key, maxCount, windowMs).result
      ]_vars

\* The same, for the keys other than the one checked and for windows no
\* longer than the check's own.
C36_ShorterWindowOrOtherKey ==
    [][ret'.op = "check" =>
           \A key \in RateKeys, windowMs \in 1..(MaxRateTime + 1) :
               (key # ret'.key \/ windowMs <= ret'.windowMs) =>
                   /\ limiterCount(limiter', key, windowMs)
                          = limiterCount(limiter, key, windowMs)
                   /\ \A maxCount \in 0..2 :
                          check(limiter', key, maxCount, windowMs).result
                              = check(limiter, key, maxCount, windowMs).result
      ]_vars


(***************************************************************************)
(* One EventStream whose callbacks may change the stream's list while they *)
(* are notified: each callback is registered at most once from outside,    *)
(* may be unregistered from outside, and emits append without faults.      *)
(***************************************************************************)
CallbackKinds == {"returns", "throws", "unregistersSelf", "unregistersOther", "registers"}

UnregisterCallback(callback) ==
    /\ stream' = [stream EXCEPT !.callbacks = unregisterCallback(@, callback)]
    /\ ret' = [op |-> "unregisterCallback", raised |-> FALSE, value |-> <<>>]
    /\ UNCHANGED streamFrame

NextReentrant ==
    \/ \E callback \in CallbackKinds :
           /\ Len(stream.callbacks) <= MaxCallbacks
           /\ \A i \in DOMAIN stream.callbacks : stream.callbacks[i] # callback
           /\ RegisterCallback(callback)
    \/ \E callback \in CallbackKinds : UnregisterCallback(callback)
    \/ \E severity \in {"info", "alert"} :
           /\ stream.emits < MaxEmits
           /\ Emit(EventOf(severity), EventBytes, [rotation |-> "none", append |-> "ok"])

SpecReentrant == InitStreamWith({NoStream}) /\ [][NextReentrant]_vars

\* How often x occurs in the sequence s.
occurrences(s, x) == Cardinality({i \in DOMAIN s : s[i] = x})

\* C37 (callback delivery under re-entrancy): for an emitted event, every
\* callback that is registered when emit starts and is still registered when
\* the notification ends has been invoked exactly once, also when callbacks
\* unregister themselves or others, or register new ones, while notified.
C37_DeliveryUnderReentrancy ==
    (ret.op = "emit" /\ ret.returned = "event") =>
        \A i \in DOMAIN ret.before.callbacks :
            (\E k \in DOMAIN stream.callbacks :
                 stream.callbacks[k] = ret.before.callbacks[i]) =>
                occurrences(ret.invoked, ret.before.callbacks[i]) = 1


(***************************************************************************)
(* Several EventStreams with default options over one directory, each      *)
(* emitting alert events.  stream.writers[w] holds where writer w is in    *)
(* writeEvent (part_001 326-333, 272-288) and how many events it has       *)
(* appended; each file-system call is one step, and the calls of the       *)
(* writers interleave.  The stream file starts with one old event in it,   *)
(* at or just below the threshold.                                         *)
(***************************************************************************)
Writers == {"w1", "w2"}

OldEvent == serializeEvent(WithField(EventOf("info"), "agentId", <<"old">>))
OlderEvent == serializeEvent(WithField(EventOf("info"), "agentId", <<"older">>))

\* The n-th event of writer w, serialised.
WriterEvent(w, n) == serializeEvent(WithField(EventOf("alert"), "agentId", <<w, n>>))

RaceDirs ==
    LET full == MAX_FILE_SIZE_MB * BytesPerMb IN
    {{[name |-> StreamFile, size |-> full - EventBytes, lines |-> <<OldEvent>>]},
     {[name |-> StreamFile, size |-> full, lines |-> <<OldEvent>>]},
     {[name |-> StreamFile, size |-> full + 1, lines |-> <<OldEvent>>],
      [name |-> Rotated, size |-> full, lines |-> <<OlderEvent>>]}}

RaceStreams ==
    {[minSeverity |-> "info", callbacks |-> <<>>, dir |-> d, stderr |-> 0, emits |-> 0,
      writers |-> [w \in Writers |-> [pc |-> "idle", appended |-> 0]]] : d \in RaceDirs}

InitRace == InitStreamWith(RaceStreams)

\* Writer w goes from pc at to pc to, leaving the directory as dir.
WriterStep(w, at, to, dir) ==
    /\ stream.writers[w].pc = at
    /\ stream' = [stream EXCEPT !.writers[w].pc = to, !.dir = dir]
    /\ ret' = [op |-> at, raised |-> FALSE, value |-> <<>>, writer |-> w]
    /\ UNCHANGED streamFrame

\* emit up to the call of writeEvent (lines 305-320).
StartEmit(w) ==
    /\ stream.writers[w].appended < MaxRotationEmits
    /\ shouldEmit("alert", stream.minSeverity)
    /\ WriterStep(w, "idle", "existsSync", stream.dir)

\* Line 274.
ExistsStreamFile(w) ==
    WriterStep(w, "existsSync",
               IF Exists(stream.dir, StreamFile) THEN "statSync" ELSE "appendFileSync",
               stream.dir)

\* Lines 275-277; a stat of a file that is gone throws into the catch of 285.
StatStreamFile(w) ==
    WriterStep(w, "statSync",
               IF /\ Exists(stream.dir, StreamFile)
                  /\ FileOf(stream.dir, StreamFile).size >= MAX_FILE_SIZE_MB * BytesPerMb
                   THEN "existsRotated" ELSE "appendFileSync",
               stream.dir)

\* Line 279.
ExistsRotated(w) ==
    WriterStep(w, "existsRotated",
               IF Exists(stream.dir, Rotated) THEN "unlinkSync" ELSE "renameSync",
               stream.dir)

\* Line 280; an unlink of a file that is gone throws into the catch of 285.
UnlinkRotated(w) ==
    WriterStep(w, "unlinkSync",
               IF Exists(stream.dir, Rotated) THEN "renameSync" ELSE "appendFileSync",
               Remove(stream.dir, Rotated))

\* Line 282: the stream file takes the backup's name, replacing a backup that
\* is there; a rename of a file that is gone throws into the catch of 285.
RenameStreamFile(w) ==
    WriterStep(w, "renameSync", "appendFileSync",
               IF Exists(stream.dir, StreamFile)
                   THEN Remove(Remove(stream.dir, Rotated), StreamFile) \cup
                        {[FileOf(stream.dir, StreamFile) EXCEPT !.name = Rotated]}
                   ELSE stream.dir)

\* Line 329 and the rest of emit (lines 321-323).
AppendEvent(w) ==
    /\ stream.writers[w].pc = "appendFileSync"
    /\ stream' = [stream EXCEPT
           !.writers[w] = [pc |-> "idle", appended |-> @.appended + 1],
           !.emits = @ + 1,
           !.dir = AppendLine(@, StreamFile,
                              WriterEvent(w, stream.writers[w].appended + 1), EventBytes)]
    /\ ret' = [op |-> "appendFileSync", raised |-> FALSE, value |-> <<>>, writer |-> w]
    /\ UNCHANGED streamFrame

NextRace ==
    \/ \E w \in Writers : StartEmit(w)
    \/ \E w \in Writers : ExistsStreamFile(w)
    \/ \E w \in Writers : StatStreamFile(w)
    \/ \E w \in Writers : ExistsRotated(w)
    \/ \E w \in Writers : UnlinkRotated(w)
    \/ \E w \in Writers : RenameStreamFile(w)
    \/ \E w \in Writers : AppendEvent(w)

SpecRace == InitRace /\ [][NextRace]_vars

\* The lines of the file called name, none when there is no such file.
linesOf(dir, name) ==
    IF \E f \in dir : f.name = name
        THEN LET f == CHOOSE g \in dir : g.name = name
             IN  {f.lines[j] : j \in DOMAIN f.lines}
        ELSE {}

\* C38 (rotation race): whatever the interleaving of the writers' stat,
\* unlink, rename and append steps around the threshold, the event that was
\* in the stream file before the rotation and every event appended since are
\* in the stream file or in its .1 backup.
C38_RotationRace ==
    \A line \in {OldEvent} \cup {WriterEvent(w, n) : w \in Writers, n \in 1..MaxRotationEmits} :
        (line = OldEvent \/ \E w \in Writers :
             \E n \in 1..stream.writers[w].appended : line = WriterEvent(w, n))
            => line \in linesOf(stream.dir, StreamFile)
                            \cup linesOf(stream.dir, StreamFile \o <<".1">>)


(***************************************************************************)
(* ModelRuntime (part_000 61-155).  load is an async function: it runs to  *)
(* its first await inside the call and each later await is one step, so    *)
(* calls of load, unload and infer interleave with the steps of a load in  *)
(* progress.  runtime.loads holds, for every load that went past its       *)
(* guards, the await it stands at, or "settled".                           *)
(***************************************************************************)
MaxLoads == 2

ModelHashOf == <<"sha256", "model.gguf">>
MetadataOf(hash) == <<"metadata", "model.gguf", hash>>

runtimeFrame == <<chainVars, hookVars, config, tampered, peer, calls, stream, now>>

\* Lines 78-92: the guards, status = "loading", and existsSync; on a file that
\* exists the call stands at the await of computeModelHash.
load(fileExists) ==
    IF runtime.status = "loading"
        THEN /\ ret' = [op |-> "load", raised |-> TRUE, value |-> "MODEL_LOAD_FAILED"]
             /\ runtime' = runtime
    ELSE IF runtime.status = "ready"
        THEN /\ ret' = [op |-> "load", raised |-> FALSE, value |-> "resolved"]
             /\ runtime' = runtime
    ELSE IF ~fileExists
        THEN /\ ret' = [op |-> "loadSettled", raised |-> TRUE, value |-> "MODEL_NOT_FOUND"]
             /\ runtime' = [runtime EXCEPT !.status = "error",
                                           !.loads = Append(@, "settled")]
    ELSE /\ ret' = [op |-> "load", raised |-> FALSE, value |-> "pending"]
         /\ runtime' = [runtime EXCEPT !.status = "loading",
                                       !.loads = Append(@, "computeModelHash")]

\* Lines 120-131: the catch of load.
loadFails(i) ==
    /\ ret' = [op |-> "loadSettled", raised |-> TRUE, value |-> "MODEL_LOAD_FAILED"]
    /\ runtime' = [runtime EXCEPT !.status = "error", !.loads[i] = "settled"]

\* Lines 95-119: load i resumes from the await it stands at.  outcome is
\* "ok", "throws", or, for the probe of node-llama-cpp, "missing".
loadResumes(i, outcome) ==
    LET at == runtime.loads[i] IN
    IF outcome = "throws" /\ at # "checkLlamaCppAvailable" THEN loadFails(i)
    ELSE /\ ret' = [op |-> IF at = "ready" THEN "loadSettled" ELSE "loadResumes",
                    raised |-> FALSE, value |-> at]
         /\ runtime' =
                CASE at = "computeModelHash" ->
                         [runtime EXCEPT !.modelHash = ModelHashOf,
                                         !.loads[i] = "extractMetadata"]
                  [] at = "extractMetadata" ->
                         [runtime EXCEPT !.metadata = MetadataOf(ModelHashOf),
                                         !.loads[i] = "checkLlamaCppAvailable"]
                  [] at = "checkLlamaCppAvailable" ->
                         IF outcome = "ok"
                             THEN [runtime EXCEPT !.loads[i] = "loadWithLlamaCpp"]
                             ELSE [runtime EXCEPT !.llamaContext = <<>>,
                                                  !.loads[i] = "ready"]
                  [] at = "loadWithLlamaCpp" ->
                         [runtime EXCEPT !.llamaContext = <<"context">>,
                                         !.loads[i] = "ready"]
                  [] at = "ready" ->
                         [runtime EXCEPT !.status = "ready", !.loads[i] = "settled"]

\* Lines 137-144.
unload ==
    /\ runtime' = [runtime EXCEPT !.llamaContext = <<>>, !.status = "unloaded",
                                  !.metadata = <<>>, !.modelHash = <<>>]
    /\ ret' = [op |-> "unload", raised |-> FALSE, value |-> "resolved"]

\* Lines 149-200: the guard, then the inference; the mock inference does not
\* fail, the real one may.
infer(outcome) ==
    /\ runtime' = runtime
    /\ ret' = IF runtime.status # "ready"
                  THEN [op |-> "infer", raised |-> TRUE, value |-> "INFERENCE_FAILED"]
              ELSE IF runtime.llamaContext # <<>> /\ outcome = "throws"
                  THEN [op |-> "infer", raised |-> TRUE, value |-> "INFERENCE_FAILED"]
              ELSE [op |-> "infer", raised |-> FALSE, value |-> "result"]

Load(fileExists) ==
    /\ Len(runtime.loads) < MaxLoads
    /\ load(fileExists)
    /\ UNCHANGED runtimeFrame

LoadResumes(i, outcome) ==
    /\ i \in DOMAIN runtime.loads
    /\ runtime.loads[i] # "settled"
    /\ outcome = "missing" => runtime.loads[i] = "checkLlamaCppAvailable"
    /\ loadResumes(i, outcome)
    /\ UNCHANGED runtimeFrame

Unload ==
    /\ unload
    /\ UNCHANGED runtimeFrame

Infer(outcome) ==
    /\ infer(outcome)
    /\ UNCHANGED runtimeFrame

NextRuntime ==
    \/ \E fileExists \in BOOLEAN : Load(fileExists)
    \/ \E i \in 1..MaxLoads, outcome \in {"ok", "throws", "missing"} : LoadResumes(i, outcome)
    \/ Unload
    \/ \E outcome \in {"ok", "throws"} : Infer(outcome)

SpecRuntime == Init /\ [][NextRuntime]_vars

\* The runtime holds nothing: unloaded, metadata and modelHash null.
isUnloaded(rt) == rt.status = "unloaded" /\ rt.metadata = <<>> /\ rt.modelHash = <<>>

\* load, settling and infer as claimed: a load while loading raises
\* MODEL_LOAD_FAILED, a load when ready changes nothing, a load that settles
\* leaves the status ready or error, and infer raises unless ready.
statusGuards ==
    /\ (ret'.op = "load" /\ runtime.status = "loading") =>
           ret'.raised /\ ret'.value = "MODEL_LOAD_FAILED" /\ runtime' = runtime
    /\ (ret'.op = "load" /\ runtime.status = "ready") =>
           ~ret'.raised /\ runtime' = runtime
    /\ ret'.op = "loadSettled" => runtime'.status \in {"ready", "error"}
    /\ (ret'.op = "infer" /\ runtime.status # "ready") => ret'.raised

\* C39 (ModelRuntime status machine): load while loading raises
\* MODEL_LOAD_FAILED and load when ready is a no-op; a load that settles
\* leaves the status ready or error; infer raises unless the status is ready;
\* and a runtime that is unloaded with metadata and modelHash null stays so
\* until load is called again, also when a load was in progress at the unload.
C39_StatusMachine ==
    [][/\ statusGuards
       /\ (isUnloaded(runtime) /\ ret'.op \notin {"load", "loadSettled"}) =>
              isUnloaded(runtime')
       /\ (isUnloaded(runtime) /\ ret'.op = "loadSettled") =>
              \E i \in DOMAIN runtime'.loads :
                  runtime'.loads[i] = "settled" /\ i \notin DOMAIN runtime.loads
      ]_vars

\* The parts of C39 that do not concern an unload during a load.
C39_Guards == [][statusGuards]_vars

====
